---- MODULE Spec2Model ----
(***************************************************************************)
(* A state-machine model of sedgen's SedGen class                          *)
(* (src/src/sedgen/initialization.py): the construction of the initial     *)
(* poly-crystalline grain (pcg) and the weathering loop with its four      *)
(* operators intra_cb, inter_cb, chem_mcg and chem_pcg.                    *)
(*                                                                         *)
(* Conventions.                                                            *)
(*  - numpy arrays of fixed shape (mcg, interface_counts_matrix, residue,  *)
(*    the preallocated logs) are functions on 0-based domains; ragged or   *)
(*    growing arrays (interface_array, the pcgs, the append-only logs) are *)
(*    sequences, read with At0/Slice0 where the source indexes from 0.     *)
(*  - floating point interface probabilities are kept as exact integer     *)
(*    weights: every stored weight is the source's value times the common  *)
(*    factor StrengthScale/N, which cancels when the weights are           *)
(*    normalised; a uniform draw of RandomState(step) is the integer       *)
(*    floor(draw * DrawDen), a double read past the end of the draws a     *)
(*    numerator over DrawDen, a draw of default_rng a multiple of 1/UDen.  *)
(*  - the model object is the record `self`; `orig` is the object          *)
(*    weathering was called on and `alias` the attributes whose value is   *)
(*    still one shared Python object in both (copy.copy is shallow).       *)
(***************************************************************************)
EXTENDS Integers, Sequences, FiniteSets, TLC

VARIABLES
    cfg,          \* construction and call parameters (never change)
    pc,           \* "ready" | "op" | "track" | "done" | "error"; in __init__:
                  \* "frequencies" | "correction" | "row" | "draw" | "transitions made"
    self,         \* the model object weathering works on
    orig,         \* the model object weathering was called on
    alias,        \* attributes of self and orig that are the same object
    step,         \* loop variable of weathering
    opi,          \* position in the operations list (1-based)
    mcg_broken,   \* local variable of weathering
    returned,     \* "none" | "self" | "tuple" | "raise"
    error,        \* name of the exception raised, "" when none
    last,         \* what the last operator did: [op, dissolved, split, warned, executed]
    frame         \* local variables of __init__ while it builds the transitions

vars == <<cfg, pc, self, orig, alias, step, opi, mcg_broken, returned, error, last,
          frame>>

-----------------------------------------------------------------------------
(* Bounds of the model *)

\* extra crystals, beyond one per mineral, the CSD sampler may return
MaxExtra == 1
\* n_timesteps given at construction
MaxTimesteps == 5
\* a uniform draw of default_rng is one of the UDen multiples of 1/UDen in
\* [0, 1)
UDen == 2
\* the draws of RandomState(step) are kept as floor(draw * DrawDen)
DrawDen == 10000
\* number of size bins of the Bins class
n_bins == 8
\* n_standard_cases given at construction: pcg lengths with a precomputed
\* location-probability table
n_standard_cases == 4
\* the bytes a read past the end of an array of transitions may return:
\* any value of a uint8
StrayBytes == 0..255

(* Program constants *)

\* perform_interface_array_correction and check_properties count range(6)
CorrectionRange == 6
\* prob_unit of perform_interface_array_correction
prob_unit == 1
\* start_bin_corr of intra_crystal_breakage_binned
start_bin_corr == 5

-----------------------------------------------------------------------------
(* Python / numpy helpers *)

Min(a, b) == IF a < b THEN a ELSE b
Max(a, b) == IF a < b THEN b ELSE a

\* arr[i] with Python's negative indices
At0(arr, i) == IF i < 0 THEN arr[Len(arr) + i + 1] ELSE arr[i + 1]

\* arr[a:b] for 0 <= a
Slice0(arr, a, b) == SubSeq(arr, a + 1, Min(b, Len(arr)))

\* np.delete(arr, i)
Delete0(arr, i) == SubSeq(arr, 1, i) \o SubSeq(arr, i + 2, Len(arr))

\* np.sum(arr == x)
CountEq(arr, x) == Cardinality({i \in 1..Len(arr) : arr[i] = x})

\* np.where(arr == x)[0][-1]
LastIndex0(arr, x) ==
    (CHOOSE i \in 1..Len(arr) :
        arr[i] = x /\ \A j \in (i + 1)..Len(arr) : arr[j] # x) - 1

RECURSIVE SeqSum(_)
SeqSum(s) == IF s = <<>> THEN 0 ELSE Head(s) + SeqSum(Tail(s))

RECURSIVE SumFrom(_, _, _)
SumFrom(f, lo, hi) == IF lo > hi THEN 0 ELSE f[lo] + SumFrom(f, lo + 1, hi)

\* sum of f[x] over an axis S, a range of indices
SumOver(f, S) ==
    IF S = {} THEN 0
    ELSE LET lo == CHOOSE x \in S : (x - 1) \notin S
         IN SumFrom(f, lo, lo + Cardinality(S) - 1)

RECURSIVE Concat(_)
\* np.concatenate
Concat(ss) == IF ss = <<>> THEN <<>> ELSE Head(ss) \o Concat(Tail(ss))

RECURSIVE ProductOver(_, _)
ProductOver(f, S) ==
    IF S = {} THEN 1
    ELSE LET x == CHOOSE y \in S : TRUE IN f[x] * ProductOver(f, S \ {x})

\* an unsigned 32-bit subtraction; the checker's integers are 32-bit signed,
\* so a wrapped result 2^32 + (x - d) is kept as the negative number x - d
Sub32(x, d) == x - d

Minerals(M) == 0..(M - 1)
Bins == 0..(n_bins - 1)

ZeroMatrix(M) == [a \in Minerals(M) |-> [b \in Minerals(M) |-> 0]]
ZeroMcg(T, M) == [s \in 0..(T - 1) |-> [m \in Minerals(M) |-> [k \in Bins |-> 0]]]
ZeroPerStep(T, M) == [t \in 0..(T - 1) |-> [m \in Minerals(M) |-> 0]]
ZeroPerMineral(M) == [m \in Minerals(M) |-> 0]

-----------------------------------------------------------------------------
(* Construction: SedGen.__init__ *)

\* gen.count_and_convert_interfaces_to_matrix: directed adjacent pairs (a, b)
\* of minerals; a separator value n_minerals forms no pair
count_and_convert_interfaces_to_matrix(arr, M) ==
    [a \in Minerals(M) |-> [b \in Minerals(M) |->
        Cardinality({i \in 1..(Len(arr) - 1) : arr[i] = a /\ arr[i + 1] = b})]]

AddAt(freq, a, b, d) == [freq EXCEPT ![a][b] = Sub32(@, -d)]

\* diff = [np.sum(self.interface_array == x) for x in range(6)] - self.minerals_N
\* a list of 6 numbers minus an array of M numbers: numpy broadcasts only
\* equal lengths or length 1, and raises ValueError otherwise
DriftBroadcasts(M) == M = CorrectionRange \/ M = 1

Drift(arr, minerals_N, M) ==
    [x \in 0..(CorrectionRange - 1) |->
        CountEq(arr, x) - (IF M = 1 THEN minerals_N[0] ELSE minerals_N[x])]

\* the pair (a, b) indexes the matrix; any other raises IndexError
InMatrix(freq, a, b) == a \in DOMAIN freq /\ b \in DOMAIN freq[a]

\* one pass of the "too much" loop: drop the last occurrence of `index`.
\* The three updates of the matrix are in one try block: the first
\* IndexError, of a pair outside the matrix or of a read past the end of the
\* array, skips the updates that follow it
RemoveLast(st, index) ==
    LET arr == st.arr
        ci == LastIndex0(arr, index)
        prev == At0(arr, ci - 1)
        cur == At0(arr, ci)
        f1 == AddAt(st.freq, prev, cur, -prob_unit)
        f2 == AddAt(f1, prev, At0(arr, ci + 1), prob_unit)
        f3 == AddAt(f2, cur, At0(arr, ci + 1), -prob_unit)
        freq == IF ~InMatrix(st.freq, prev, cur) THEN st.freq
                ELSE IF ci + 1 >= Len(arr) THEN f1
                ELSE IF ~InMatrix(st.freq, prev, At0(arr, ci + 1)) THEN f1
                ELSE f3
    IN [st EXCEPT !.arr = Delete0(arr, ci), !.freq = freq]

RECURSIVE RemoveExceeding(_, _, _)
RemoveExceeding(st, index, item) ==
    IF item = 0 THEN st
    ELSE RemoveExceeding(RemoveLast(st, index), index, item - 1)

\* the "too few" branch: append -item crystals of `index`; outside a try
\* block, an array that ends in no mineral raises IndexError
AppendMissing(st, index, item) ==
    LET f1 == AddAt(st.freq, At0(st.arr, -1), index, prob_unit)
        f2 == AddAt(f1, index, index, (-item - 1) * prob_unit)
    IN IF ~InMatrix(st.freq, At0(st.arr, -1), index)
       THEN [st EXCEPT !.error = "IndexError"]
       ELSE [st EXCEPT !.arr = st.arr \o [i \in 1..(-item) |-> index], !.freq = f2]

RECURSIVE CorrectFrom(_, _, _, _)
\* the loop `for index, item in enumerate(diff)`; every branch prints
\* self.minerals[index], an IndexError once index >= n_minerals
CorrectFrom(st, diff, index, M) ==
    IF index = CorrectionRange \/ st.error # "" THEN st
    ELSE IF index >= M THEN [st EXCEPT !.error = "IndexError"]
    ELSE LET item == diff[index]
             nxt == IF item > 0 THEN RemoveExceeding(st, index, item)
                    ELSE IF item < 0 THEN AppendMissing(st, index, item)
                    ELSE st
         IN CorrectFrom(nxt, diff, index + 1, M)

perform_interface_array_correction(interface_array, counts, minerals_N, M) ==
    LET st0 == [arr |-> interface_array, freq |-> counts, error |-> ""]
    IN IF ~DriftBroadcasts(M) THEN [st0 EXCEPT !.error = "ValueError"]
       ELSE CorrectFrom(st0, Drift(interface_array, minerals_N, M), 0, M)

\* calculate_actual_minerals_N
calculate_actual_minerals_N(arr, M) == [m \in Minerals(M) |-> CountEq(arr, m)]

\* fill_main_cystal_size_array: the j-th crystal of mineral i in the array
\* takes the j-th sampled size of mineral i
fill_main_cystal_size_array(arr, sizes) ==
    [p \in 1..Len(arr) |->
        IF arr[p] \in DOMAIN sizes
        THEN sizes[arr[p]][CountEq(SubSeq(arr, 1, p), arr[p])]
        ELSE 0]

\* Bins.size_bins_medians: a geometric sequence of sizes
size_bins_medians(k) == 2 ^ k

\* gen.get_interface_size_prob on one pair of neighbouring size bins; a
\* separator (-1) gives a value that the `> 0` filter of chem_pcg removes
get_interface_size_prob(kl, kr) ==
    IF kl < 0 \/ kr < 0 THEN 0
    ELSE size_bins_medians(kl) + size_bins_medians(kr)

\* calculate_number_proportions, in units of 1/N
calculate_number_proportions(minerals_N) == minerals_N

\* calculate_interface_proportions, in units of 1/N^2: the product of the
\* number proportions; self.interfacial_composition is stored by __init__
\* and read nowhere
calculate_interface_proportions(minerals_N, M) ==
    [a \in Minerals(M) |-> [b \in Minerals(M) |->
        calculate_number_proportions(minerals_N)[a] *
        calculate_number_proportions(minerals_N)[b]]]

\* the common factor that makes 1 / interface_proportions_normalized integral
StrengthScale(minerals_N, M) == ProductOver(minerals_N, Minerals(M))

\* 1 / calculate_interface_proportions_normalized()[a, b], times
\* StrengthScale / N: the row sum of row a over the entry (a, b)
InverseStrength(minerals_N, M, a, b) ==
    LET ip == calculate_interface_proportions(minerals_N, M)
        rowsum == SumOver(ip[a], Minerals(M))
        N == SumOver(minerals_N, Minerals(M))
    IN (rowsum * StrengthScale(minerals_N, M)) \div (ip[a][b] * N)

\* gen.get_interface_strengths_prob inverted; pairs with the separator
\* n_minerals have strength 0 in the expanded matrix and are filtered out
InterfaceConstantProb(minerals_N, M, a, b, kl, kr) ==
    IF a >= M \/ b >= M THEN 0
    ELSE get_interface_size_prob(kl, kr) * InverseStrength(minerals_N, M, a, b)

\* self.interface_constant_prob = interface_size_prob / interface_strengths_prob
interface_constant_prob(arr, csize, minerals_N, M) ==
    [i \in 1..Max(0, Len(arr) - 1) |->
        InterfaceConstantProb(minerals_N, M, arr[i], arr[i + 1],
                              csize[i], csize[i + 1])]

-----------------------------------------------------------------------------
(* Discretization: Bins, BinsMatricesMixin, McgBreakPatternMixin *)

\* median linear size of bin k of mineral m at chem-state s: every
\* chem-state takes the per-mineral rate off the size
SizeAt(rates, s, m, k) == size_bins_medians(k) - s * rates[m]

\* volume_bins_medians_matrix[s, m, k], in units of a quarter cube
volume_bins_medians_matrix(rates, s, m, k) ==
    IF SizeAt(rates, s, m, k) > 0 THEN 4 * SizeAt(rates, s, m, k) ^ 3 ELSE 0

\* volume_change_matrix[s, m, k]: the volume lost from chem-state s to s + 1
volume_change_matrix(rates, s, m, k) ==
    volume_bins_medians_matrix(rates, s, m, k) -
    volume_bins_medians_matrix(rates, s + 1, m, k)

\* negative_volume_thresholds[s, m]: the smallest bin whose volume is still
\* positive at chem-state s, which is the number of bins, all below it, that
\* have no volume left; the bins below it are dissolved
negative_volume_thresholds(rates, s, m) ==
    Cardinality({k \in Bins : SizeAt(rates, s, m, k) <= 0})

\* intra_cb_threshold_bin_matrix[n, m] for the default threshold, the
\* smallest size: the first bin that still holds a crystal at chem-state n
intra_cb_threshold_bin_matrix(rates, n, m) == negative_volume_thresholds(rates, n, m)

\* the tables of break offsets a discretization may give a parent bin: the
\* j-th offset d gives the children k-j and k-j-d, which together hold less
\* volume than the parent. Two children one bin down and two children two
\* bins down; or, for the first pattern, the children one and two bins down
BreakTables == {<<0, 0>>, <<1, 0>>}

\* intra_cb_breaks_matrix[m, n][kk]: the break offsets of a parent bin
intra_cb_breaks_matrix(m, n, kk) == cfg.intra_cb_breaks

\* diffs_volumes_matrix[n, m][kk]: the residue of each break pattern of the
\* kk-th bin from the threshold bin, as a fraction of the parent's volume and
\* in units of 1 / that volume: what the two children, under the volumes of
\* chem-state n, leave of the parent
diffs_volumes_matrix(rates, n, m, kk) ==
    LET k == kk + intra_cb_threshold_bin_matrix(rates, n, m)
        breaks == intra_cb_breaks_matrix(m, n, kk)
    IN [j \in 1..Len(breaks) |->
            volume_bins_medians_matrix(rates, n, m, k) -
            volume_bins_medians_matrix(rates, n, m, k - j) -
            volume_bins_medians_matrix(rates, n, m, k - j - breaks[j])]

\* search_volume_bins_medians_matrix[m, n][k + n_bins]: the parent's volume
search_volume_bins_medians_matrix(rates, m, n, k) ==
    volume_bins_medians_matrix(rates, n, m, k)

-----------------------------------------------------------------------------
(* The model object *)

Attributes ==
    {"interface_array", "interface_counts_matrix", "pcgs_new",
     "crystal_size_array_new", "interface_constant_prob_new",
     "pcg_chem_weath_array_new", "mcg", "residue", "residue_count",
     "pcg_chem_residue", "mcg_chem_residue", "mcg_broken_additions",
     "residue_additions", "residue_count_additions", "pcg_additions",
     "mcg_additions", "pcg_comp_evolution", "pcg_size_evolution",
     "pcg_chem_residue_additions", "mcg_chem_residue_additions",
     "mcg_evolution"}

\* ModelEvolutionMixin.__init__: the single initial pcg, an empty mcg array
\* and the preallocated logs
ModelEvolutionMixin(arr, counts, csize, prob, T, M) ==
    [interface_array |-> arr,
     interface_counts_matrix |-> counts,
     pcgs_new |-> IF arr = <<>> THEN <<>> ELSE <<arr>>,
     crystal_size_array_new |-> IF arr = <<>> THEN <<>> ELSE <<csize>>,
     interface_constant_prob_new |-> IF arr = <<>> THEN <<>> ELSE <<prob>>,
     pcg_chem_weath_array_new |->
        IF arr = <<>> THEN <<>> ELSE <<[i \in 1..Len(arr) |-> 0]>>,
     mcg |-> ZeroMcg(T, M),
     residue |-> ZeroPerStep(T, M),
     residue_count |-> ZeroPerStep(T, M),
     pcg_chem_residue |-> ZeroPerMineral(M),
     mcg_chem_residue |-> ZeroPerMineral(M),
     mcg_broken_additions |-> [t \in 0..(T - 1) |-> 0],
     residue_additions |-> ZeroPerStep(T, M),
     residue_count_additions |-> [t \in 0..(T - 1) |-> 0],
     pcg_additions |-> [t \in 0..(T - 1) |-> 0],
     mcg_additions |-> [t \in 0..(T - 1) |-> 0],
     pcg_comp_evolution |-> <<>>,
     pcg_size_evolution |-> <<>>,
     pcg_chem_residue_additions |-> ZeroPerStep(T, M),
     mcg_chem_residue_additions |-> ZeroPerStep(T, M),
     mcg_evolution |-> [t \in 0..(T - 1) |-> [m \in Minerals(M) |-> [k \in Bins |-> 0]]]]

\* a variant of mineral_property_setter with a deliberate fault: the first
\* value for every mineral
mineral_property_setter_first(p, M) ==
    [error |-> IF Len(p) \in {1, M} THEN "" ELSE "ValueError",
     value |-> [m \in Minerals(M) |-> p[1]]]

\* mineral_property_setter(p): a list of one value gives a row [p] to every
\* mineral, which broadcasts as its one element; a list of n_minerals values
\* gives each mineral its own; any other length raises ValueError
mineral_property_setter(p, M) ==
    IF Len(p) = 1
    THEN [error |-> "", value |-> [m \in Minerals(M) |-> p[1]]]
    ELSE IF Len(p) = M
    THEN [error |-> "", value |-> [m \in Minerals(M) |-> p[m + 1]]]
    ELSE [error |-> "ValueError", value |-> <<>>]

\* the three per-mineral property lists of __init__
PropertyLists(c) == <<c.intra_cb_p, c.intra_cb_thresholds, c.chem_weath_rates>>

\* what __init__ leaves of the interface array from the array raw that
\* create_interface_array returned: the pair counts and the corrected array,
\* or the error raised on the way
InterfaceOutcome(raw, minerals_N, M) ==
    LET counts == count_and_convert_interfaces_to_matrix(raw.arr, M)
        corrected == perform_interface_array_correction(
                    raw.arr, counts, minerals_N, M)
    IN IF raw.error # ""
       THEN [error |-> raw.error, arr |-> <<>>, freq |-> ZeroMatrix(M)]
       ELSE IF corrected.error # ""
       THEN [error |-> corrected.error, arr |-> <<>>, freq |-> counts]
       ELSE [error |-> "", arr |-> corrected.arr, freq |-> corrected.freq]

\* SedGen.__init__: the property lists first, and from the sampled crystals
\* on the interface array, its pair counts and the correction (c.interface),
\* the size array and the probabilities
Construct(c) ==
    LET M == c.n_minerals
        unfit == \E i \in 1..Len(PropertyLists(c)) :
                    mineral_property_setter(PropertyLists(c)[i], M).error # ""
        arr == c.interface.arr
        csize == fill_main_cystal_size_array(arr, c.crystal_sizes_per_mineral)
        prob == interface_constant_prob(arr, csize, c.minerals_N, M)
    IN IF unfit
       THEN [error |-> "ValueError",
             model |-> ModelEvolutionMixin(<<>>, ZeroMatrix(M), <<>>, <<>>,
                                           c.n_timesteps, M)]
       ELSE IF c.interface.error # ""
       THEN [error |-> c.interface.error,
             model |-> ModelEvolutionMixin(<<>>, c.interface.freq, <<>>, <<>>,
                                           c.n_timesteps, M)]
       ELSE [error |-> "",
             model |-> ModelEvolutionMixin(arr, c.interface.freq, csize, prob,
                                           c.n_timesteps, M)]

-----------------------------------------------------------------------------
(* The interface array: __init__ from calculate_interface_frequencies to    *)
(* create_interface_array                                                   *)

\* corr of create_transitions_per_mineral_correctly
corr == 5

\* np.round of the non-negative quotient num / den: to the nearest integer,
\* a half to the even one
RoundHalfEven(num, den) ==
    LET q == num \div den
        r == num % den
    IN IF 2 * r > den \/ (2 * r = den /\ q % 2 = 1) THEN q + 1 ELSE q

\* np.round(self.interface_proportions * (self.N_crystals - 1)).astype(np.uint32)
calculate_interface_frequencies(minerals_N, n_minerals) ==
    LET N == SumOver(minerals_N, Minerals(n_minerals))
        ip == calculate_interface_proportions(minerals_N, n_minerals)
    IN [a \in Minerals(n_minerals) |-> [b \in Minerals(n_minerals) |->
            RoundHalfEven(ip[a][b] * (N - 1), N * N)]]

\* diff = np.sum(self.interface_frequencies) - (self.N_crystals - 1);
\* interface_frequencies_corr[0, 0] -= int(diff), on an array of uint32
perform_interface_frequencies_correction(interface_frequencies, N_crystals, n_minerals) ==
    LET sum == SumOver([a \in Minerals(n_minerals) |->
                            SumOver(interface_frequencies[a], Minerals(n_minerals))],
                       Minerals(n_minerals))
        diff == sum - (N_crystals - 1)
    IN [interface_frequencies EXCEPT ![0][0] = Sub32(@, diff)]

\* (c < np.cumsum(freqs / N_true)).argmax() for the draw c = u / UDen: the
\* first mineral whose cumulative share is above c, mineral 0 when there is
\* none. With N_true = 0 every quotient is nan or an infinity; the
\* cumulative sums are +inf as long as every frequency so far is positive and
\* nan or -inf from then on, so that mineral 0 is chosen either way
Choice(freqs, N_true, u, n_minerals) ==
    LET cum(j) == SumOver([b \in 0..j |-> freqs[b]], 0..j)
        above(j) == IF N_true > 0 THEN u * N_true < cum(j) * UDen
                    ELSE IF N_true < 0 THEN u * N_true > cum(j) * UDen
                    ELSE FALSE
    IN IF \E j \in Minerals(n_minerals) : above(j)
       THEN CHOOSE j \in Minerals(n_minerals) : above(j) /\ \A l \in 0..(j - 1) : ~above(l)
       ELSE 0

\* create_transitions_correctly(row, c, N_initial), from draw i on: the
\* transitions and the frequencies that remain
RECURSIVE TransitionsFrom(_, _, _, _, _, _, _)
TransitionsFrom(freqs, N_true, transitions, c, i, N, n_minerals) ==
    IF i >= N THEN [transitions |-> transitions, freqs |-> freqs, N_true |-> N_true]
    ELSE LET choice == Choice(freqs, N_true, c[i + 1], n_minerals)
         IN TransitionsFrom([freqs EXCEPT ![choice] = @ - 1], N_true - 1,
                            Append(transitions, choice), c, i + 1, N, n_minerals)

create_transitions_correctly(row, c, N_initial, n_minerals) ==
    TransitionsFrom(row, SumOver(row, Minerals(n_minerals)), <<>>, c, 0, N_initial, n_minerals).transitions

\* the transitions create_transitions_correctly may return for a row: the N
\* draws of default_rng are left open
RowTransitions(row, N, n_minerals) ==
    {create_transitions_correctly(row, c, N, n_minerals) :
        c \in [1..N -> 0..(UDen - 1)]}

\* create_transitions_per_mineral_correctly: one array of
\* minerals_N[i] + corr transitions for every row i of the frequencies
create_transitions_per_mineral_correctly(interface_frequencies, minerals_N, n_minerals) ==
    LET rows(i) == RowTransitions(interface_frequencies[i],
                                  minerals_N[i] + corr, n_minerals)
        all == UNION {rows(i) : i \in Minerals(n_minerals)}
    IN {t \in [Minerals(n_minerals) -> all] :
            \A i \in Minerals(n_minerals) : t[i] \in rows(i)}

\* create_interface_array from place i on. The function is compiled without
\* bounds checks: a read past the end of a mineral's transitions returns
\* the byte that follows them in memory, any of StrayBytes; a tuple is
\* indexed with bounds checks, so a previous state that is no mineral raises
\* IndexError
RECURSIVE InterfaceArrayFrom(_, _, _, _, _)
InterfaceArrayFrom(test_array, counters, i, transitions_per_mineral, n_minerals) ==
    IF i = Len(test_array) THEN {[error |-> "", arr |-> test_array]}
    ELSE LET previous_state == At0(test_array, i - 1)
         IN IF previous_state >= n_minerals
            THEN {[error |-> "IndexError", arr |-> test_array]}
            ELSE LET row == transitions_per_mineral[previous_state]
                     at == counters[previous_state]
                     reads == IF at < Len(row) THEN {At0(row, at)} ELSE StrayBytes
                 IN UNION {InterfaceArrayFrom(
                                [test_array EXCEPT ![i + 1] = v],
                                [counters EXCEPT ![previous_state] = @ + 1],
                                i + 1, transitions_per_mineral, n_minerals) :
                            v \in reads}

\* create_interface_array(minerals_N, transitions_per_mineral): every place
\* takes the next unused transition of the mineral before it, the first
\* place that of mineral 0 (test_array[-1] is still 0)
create_interface_array(minerals_N, transitions_per_mineral, n_minerals) ==
    InterfaceArrayFrom(
        [p \in 1..SumOver(minerals_N, Minerals(n_minerals)) |-> 0],
        [m \in Minerals(n_minerals) |-> 0],
        0, transitions_per_mineral, n_minerals)

\* the arrays __init__ may get from create_interface_array for minerals_N:
\* lines 181 to 193
InterfaceArrays(minerals_N, n_minerals) ==
    LET N_crystals == SumOver(minerals_N, Minerals(n_minerals))
        interface_frequencies ==
            perform_interface_frequencies_correction(
                calculate_interface_frequencies(minerals_N, n_minerals),
                N_crystals, n_minerals)
    IN UNION {create_interface_array(minerals_N, t, n_minerals) :
                t \in create_transitions_per_mineral_correctly(
                        interface_frequencies, minerals_N, n_minerals)}

\* what lines 181 to 201 of __init__ may leave of the interface array for
\* minerals_N: one outcome for every array create_interface_array may return
InterfaceOutcomes(minerals_N, n_minerals) ==
    {InterfaceOutcome(raw, minerals_N, n_minerals) :
        raw \in InterfaceArrays(minerals_N, n_minerals)}

-----------------------------------------------------------------------------
(* Inputs *)

\* the four operators, an operator listed twice and a name weathering does
\* not know
OperationLists ==
    {<<"intra_cb", "inter_cb", "chem_mcg", "chem_pcg">>,
     <<"inter_cb">>,
     <<"inter_cb", "inter_cb">>,
     <<"inter_cb", "chem_pcg">>,
     <<"chem_mcg", "frost", "chem_pcg">>}

MineralChoices == {1, 2, CorrectionRange}

\* minerals_N as create_N_crystals returns it: at least one crystal of
\* every mineral
MineralsN(M) ==
    {[m \in Minerals(M) |-> IF m = M - 1 THEN 1 + x ELSE 1] : x \in 0..MaxExtra}

\* size bins the CSD sampler returns for the crystals of each mineral
SizesPerMineral ==
    {<<0, 1, 1, n_bins - 1, n_bins - 1, n_bins - 1>>,
     <<1, 1, 1, 1, n_bins - 1, 2>>,
     <<0, 1, 1, 1, 1, n_bins - 1>>,
     <<0, 0, 0, 0, 0, n_bins - 1>>}

CrystalSizes(minerals_N, M) ==
    {[m \in Minerals(M) |-> [j \in 1..minerals_N[m] |-> (m + j - 1) % n_bins]],
     [m \in Minerals(M) |-> [j \in 1..minerals_N[m] |-> n_bins - 1]]}
    \cup {[m \in Minerals(M) |-> [j \in 1..minerals_N[m] |-> sizes[m + 1]]] :
            sizes \in SizesPerMineral}

\* one crystal of every mineral: create_interface_array reads no transition
\* past the end
OnePerMineral(minerals_N, M) == \A m \in Minerals(M) : minerals_N[m] = 1

\* the sizes sampled for the crystals; a construction that raises on the
\* interface array has not read them, so one sample stands for all of them
SampledSizes(minerals_N, M, outcome) ==
    IF outcome.error # ""
    THEN {[m \in Minerals(M) |-> [j \in 1..minerals_N[m] |-> n_bins - 1]]}
    ELSE CrystalSizes(minerals_N, M)

\* the list ops names the operator op
Lists(ops, op) == \E j \in 1..Len(ops) : ops[j] = op

\* the width of numpy's default integer on the platform: 64 bits on Linux
\* and macOS and with numpy 2, 32 bits on Windows with numpy 1. chem_pcg
\* alone depends on it
DefaultIntBits(ops) == IF Lists(ops, "chem_pcg") THEN {32, 64} ELSE {64}

\* the arguments of weathering and the settings it reads, varied apart from
\* what construction has made of the interface array: any operation list
\* and either value of inplace, with the width of the default integer
\* varied where chem_pcg is listed, the two flags of inter_cb where
\* inter_cb is listed, and the table of break offsets where intra_cb is
\* listed and neither flag is set
WeatheringArguments ==
    {a \in [operations : OperationLists,
            inplace : BOOLEAN,
            enable_interface_location_prob : BOOLEAN,
            enable_multi_pcg_breakage : BOOLEAN,
            intra_cb_breaks : BreakTables,
            default_int_bits : {32, 64}] :
        /\ a.default_int_bits \in DefaultIntBits(a.operations)
        /\ ~Lists(a.operations, "inter_cb") =>
            /\ ~a.enable_interface_location_prob
            /\ ~a.enable_multi_pcg_breakage
        /\ a.intra_cb_breaks # <<0, 0>> =>
            /\ Lists(a.operations, "intra_cb")
            /\ ~a.enable_interface_location_prob
            /\ ~a.enable_multi_pcg_breakage}

\* a model whose construction raises is never weathered: one list of
\* arguments stands for all of them
ArgumentsAfter(outcome) ==
    IF outcome.error = "" THEN WeatheringArguments
    ELSE {[operations |-> <<"inter_cb">>,
           inplace |-> FALSE,
           enable_interface_location_prob |-> FALSE,
           enable_multi_pcg_breakage |-> FALSE,
           intra_cb_breaks |-> <<0, 0>>,
           default_int_bits |-> 64]}

\* interfacial_composition=None
None == <<>>

\* a supplied interfacial_composition: like minerals twice as often together
SuppliedComposition(M) ==
    [a \in Minerals(M) |-> [b \in Minerals(M) |-> IF a = b THEN 2 ELSE 1]]

\* the models built without an interfacial_composition, with the arguments
\* of weathering
DefaultConfigs ==
    UNION {UNION {UNION {
        {[n_minerals |-> M,
          minerals_N |-> mN,
          interfacial_composition |-> None,
          interface |-> outcome,
          crystal_sizes_per_mineral |-> sizes,
          n_timesteps |-> MaxTimesteps,
          timesteps |-> MaxTimesteps,
          chem_weath_rates |-> <<1>>,
          intra_cb_p |-> <<<<1, 2>>>>,
          intra_cb_thresholds |-> <<0>>,
          intra_cb_breaks |-> a.intra_cb_breaks,
          operations |-> a.operations,
          inplace |-> a.inplace,
          enable_interface_location_prob |-> a.enable_interface_location_prob,
          enable_multi_pcg_breakage |-> a.enable_multi_pcg_breakage,
          default_int_bits |-> a.default_int_bits] :
            sizes \in SampledSizes(mN, M, outcome),
            a \in ArgumentsAfter(outcome)}
        : outcome \in InterfaceOutcomes(mN, M)}
        : mN \in MineralsN(M)} : M \in MineralChoices}

\* models built with a supplied interfacial_composition, weathered by
\* inter_cb alone
SuppliedConfigs ==
    {[c EXCEPT !.interfacial_composition = SuppliedComposition(c.n_minerals)] :
        c \in {d \in DefaultConfigs :
                /\ d.n_minerals = CorrectionRange
                /\ d.operations = <<"inter_cb">>
                /\ ~d.inplace
                /\ ~d.enable_multi_pcg_breakage
                /\ OnePerMineral(d.minerals_N, d.n_minerals)}}

\* a few of the default models, on which the other arguments are varied
PlainConfigs(ops) ==
    {d \in DefaultConfigs :
        /\ d.n_minerals = CorrectionRange
        /\ d.operations = ops
        /\ ~d.inplace
        /\ ~d.enable_interface_location_prob
        /\ ~d.enable_multi_pcg_breakage
        /\ OnePerMineral(d.minerals_N, d.n_minerals)}

\* models built with one value per mineral in every property list
PerMineralConfigs ==
    {[c EXCEPT
        !.chem_weath_rates = [j \in 1..c.n_minerals |-> 1 + (j % 2)],
        !.intra_cb_p = [j \in 1..c.n_minerals |->
                            IF j % 2 = 0 THEN <<1, 2>> ELSE <<1, 1>>],
        !.intra_cb_thresholds = [j \in 1..c.n_minerals |-> 0]] :
        c \in PlainConfigs(<<"intra_cb", "inter_cb", "chem_mcg", "chem_pcg">>)}

\* models built with a property list of two values for six minerals
UnfitConfigs ==
    UNION {{[c EXCEPT !.chem_weath_rates = <<1, 2>>],
            [c EXCEPT !.intra_cb_p = <<<<1, 2>>, <<1, 1>>>>],
            [c EXCEPT !.intra_cb_thresholds = <<0, 0>>]} :
        c \in PlainConfigs(<<"inter_cb">>)}

\* models whose crystals come in two sizes only, the smallest bin for the
\* minerals of even index and the largest for the others, weathered by
\* inter_cb and chem_pcg
SharedBinConfigs ==
    {[c EXCEPT !.crystal_sizes_per_mineral =
        [m \in Minerals(c.n_minerals) |-> [j \in 1..c.minerals_N[m] |->
            IF m % 2 = 0 THEN 0 ELSE n_bins - 1]]] :
        c \in PlainConfigs(<<"inter_cb", "chem_pcg">>)}

\* models built for one timestep or for two, and weathered for as many
ShortConfigs ==
    {[c EXCEPT !.n_timesteps = t, !.timesteps = t] :
        c \in PlainConfigs(<<"intra_cb", "inter_cb", "chem_mcg", "chem_pcg">>),
        t \in 1..2}

\* models built with intra_cb_p = 1: every mcg of a breakable bin breaks
WholeConfigs ==
    {[c EXCEPT !.intra_cb_p = <<<<1, 1>>>>] :
        c \in {d \in DefaultConfigs :
                /\ d.n_minerals = CorrectionRange
                /\ d.operations = <<"intra_cb", "inter_cb", "chem_mcg", "chem_pcg">>
                /\ ~d.inplace
                /\ ~d.enable_multi_pcg_breakage}}

Configs ==
    DefaultConfigs \cup SuppliedConfigs \cup PerMineralConfigs \cup UnfitConfigs
        \cup SharedBinConfigs \cup ShortConfigs \cup WholeConfigs

\* __init__ has returned: its local variables are gone
NoFrame == <<>>

NoOp == [op |-> "", dissolved |-> 0, split |-> 0, warned |-> FALSE, executed |-> <<>>]

Init ==
    /\ cfg \in Configs
    /\ LET built == Construct(cfg)
       IN /\ self = built.model
          /\ orig = built.model
          /\ error = built.error
          /\ pc = IF built.error = "" THEN "ready" ELSE "error"
    /\ alias = Attributes
    /\ step = 0
    /\ opi = 1
    /\ mcg_broken = ZeroMcg(cfg.n_timesteps, cfg.n_minerals)
    /\ returned = "none"
    /\ last = NoOp
    /\ frame = NoFrame

-----------------------------------------------------------------------------
(* Attribute writes: copy.copy(self) shares every attribute's object *)

\* the attribute writes of one operator. `mutated` attributes are changed in
\* place (self.attr[...] = val, self.attr[...] -= 1, self.attr.append(...)):
\* the object changes for every model that still holds it. `rebound`
\* attributes are bound to new objects (self.attr = val): the model
\* weathering was called on follows only when self is that model (inplace),
\* and otherwise stops sharing the attribute's object
Write(new, mutated, rebound) ==
    /\ self' = new
    /\ orig' = [a \in Attributes |->
                  IF (a \in mutated /\ a \in alias) \/ (a \in rebound /\ cfg.inplace)
                  THEN new[a] ELSE orig[a]]
    /\ alias' = IF cfg.inplace THEN alias ELSE alias \ rebound

\* if not timesteps: timesteps = self.n_timesteps
Timesteps == IF cfg.timesteps = 0 THEN cfg.n_timesteps ELSE cfg.timesteps

T == cfg.n_timesteps
M == cfg.n_minerals

\* self.chem_weath_rates and self.intra_cb_p of the constructed model
chem_weath_rates == mineral_property_setter(cfg.chem_weath_rates, M).value
intra_cb_p == mineral_property_setter(cfg.intra_cb_p, M).value

Mcg3Sum(mcg) ==
    SumOver([s \in DOMAIN mcg |->
        SumOver([m \in DOMAIN mcg[s] |-> SumOver(mcg[s][m], Bins)], DOMAIN mcg[s])],
        DOMAIN mcg)

\* weathering up to the loop: self = self if inplace else copy.copy(self)
StartWeathering ==
    /\ pc = "ready"
    /\ pc' = "op"
    /\ step' = 0
    /\ opi' = 1
    /\ mcg_broken' = ZeroMcg(T, M)
    /\ last' = NoOp
    /\ UNCHANGED <<frame, cfg, self, orig, alias, returned, error>>

\* where the loop goes after the operator at position opi
AfterOperation == IF opi = Len(cfg.operations) THEN "track" ELSE "op"

Ran(op, dissolved, split) ==
    [op |-> op, dissolved |-> dissolved, split |-> split, warned |-> FALSE,
     executed |-> Append(last.executed, op)]

-----------------------------------------------------------------------------
(* intra_cb *)

CeilDiv(a, b) == (a + b - 1) \div b

\* np.floor(mcg_new * prob[m]) when `floor` is truthy, np.ceil otherwise
mcg_selected(mcg_old, p, floor) ==
    [k \in Bins |-> IF floor # 0 THEN (mcg_old[k] * p[1]) \div p[2]
                    ELSE CeilDiv(mcg_old[k] * p[1], p[2])]

\* a Python index into an array of n_bins entries
BinIndex(i) == IF i < 0 THEN i + n_bins ELSE i

\* arr[idx] += counts with a sequence of indices: numpy reads all entries
\* first, so of two equal indices only the last one's count is added
FancyAdd(arr, idx, counts) ==
    [k \in Bins |->
        IF \E j \in 1..Len(idx) : BinIndex(idx[j]) = k
        THEN arr[k] + counts[CHOOSE j \in 1..Len(idx) :
                        BinIndex(idx[j]) = k /\
                        \A l \in (j + 1)..Len(idx) : BinIndex(idx[l]) # k]
        ELSE arr[k]]

\* the entries of `values` where `mask` is positive
Positive(values, mask) ==
    LET keep == {j \in 1..Len(mask) : mask[j] > 0}
        F[j \in 0..Len(mask)] ==
            IF j = 0 THEN <<>>
            ELSE IF j \in keep THEN Append(F[j - 1], values[j]) ELSE F[j - 1]
    IN F[Len(mask)]

\* breaker_counts: the selected crystals split evenly over the break
\* patterns, the remainder added to the last
breaker_counts(n_crystals, size) ==
    [j \in 1..size |-> (n_crystals \div size) +
                       (IF j = size THEN n_crystals % size ELSE 0)]

\* one pass of the loop over the selected bins
BreakBin(acc, rates, selected, m, n, k, thr_bin) ==
    LET kk == k - thr_bin + start_bin_corr
        to_use == Positive(intra_cb_breaks_matrix(m, n, kk),
                           diffs_volumes_matrix(rates, n, m, kk))
        diffs_to_use == Positive(diffs_volumes_matrix(rates, n, m, kk),
                                 diffs_volumes_matrix(rates, n, m, kk))
        counts == breaker_counts(selected[k], Len(to_use))
        p1 == [j \in 1..Len(to_use) |-> k - j]
        p2 == [j \in 1..Len(to_use) |-> p1[j] - to_use[j]]
        search == search_volume_bins_medians_matrix(rates, m, n, k)
    IN IF selected[k] = 0 \/ acc.error # "" THEN acc
       ELSE IF Len(to_use) = 0
       THEN \* divmod by a size of 0 gives 0, and breaker_counts[-1] of the
            \* empty array raises
            [acc EXCEPT !.error = "IndexError"]
       ELSE [error |-> "",
             mcg_new |-> FancyAdd(FancyAdd(acc.mcg_new, p1, counts), p2, counts),
             residue_new |-> acc.residue_new +
                \* search_bins[...] * diffs_volumes_to_use * breaker_counts,
                \* the fraction diffs_to_use[j] / search taken of search
                SeqSum([j \in 1..Len(to_use) |->
                    IF search = 0 THEN 0 ELSE diffs_to_use[j] * counts[j]]),
             split |-> acc.split + selected[k]]

RECURSIVE BreakBinsFrom(_, _, _, _, _, _, _)
BreakBinsFrom(acc, rates, selected, m, n, k, thr_bin) ==
    IF k >= n_bins THEN acc
    ELSE BreakBinsFrom(BreakBin(acc, rates, selected, m, n, k, thr_bin),
                       rates, selected, m, n, k + 1, thr_bin)

\* perform_intra_crystal_breakage_2d; intra_cb_threshold_bin is the bin
\* threshold plus start_bin_corr; residue_count is never counted up
perform_intra_crystal_breakage_2d(mcg_old, rates, p, m, n, intra_cb_threshold_bin, floor) ==
    LET selected == mcg_selected(mcg_old, p, floor)
        taken == [k \in Bins |-> IF k >= intra_cb_threshold_bin
                                 THEN mcg_old[k] - selected[k] ELSE mcg_old[k]]
        done == BreakBinsFrom([error |-> "", mcg_new |-> taken,
                               residue_new |-> 0, split |-> 0],
                              rates, selected, m, n, intra_cb_threshold_bin,
                              intra_cb_threshold_bin)
    IN [error |-> done.error, mcg_new |-> done.mcg_new,
        residue_new |-> done.residue_new,
        residue_count |-> 0, split |-> done.split]

\* intra_crystal_breakage_binned(alternator=step): every (chem-state,
\* mineral) plane that holds a crystal; floor = alternator % 2
\* the results of the planes put together: the new mcg, and residue and
\* residue count summed over the chem-states
PlanesTogether(mcg, all) ==
    [error |-> IF \E n \in DOMAIN mcg : \E m \in DOMAIN mcg[n] :
                        all[n][m].error # ""
                  THEN "IndexError" ELSE "",
     mcg_new |-> [n \in DOMAIN mcg |-> [m \in DOMAIN mcg[n] |-> all[n][m].mcg_new]],
     residue_new |-> [m \in Minerals(M) |->
        SumOver([n \in DOMAIN mcg |-> all[n][m].residue_new], DOMAIN mcg)],
     residue_count_new |-> [m \in Minerals(M) |->
        SumOver([n \in DOMAIN mcg |-> all[n][m].residue_count], DOMAIN mcg)],
     split |-> SumOver([n \in DOMAIN mcg |->
        SumOver([m \in DOMAIN mcg[n] |-> all[n][m].split], DOMAIN mcg[n])],
        DOMAIN mcg)]

intra_crystal_breakage_binned(mcg, rates, probs, alternator) ==
    PlanesTogether(mcg,
        [n \in DOMAIN mcg |-> [m \in DOMAIN mcg[n] |->
            IF \A k \in Bins : mcg[n][m][k] = 0
            THEN [error |-> "", mcg_new |-> mcg[n][m], residue_new |-> 0,
                  residue_count |-> 0, split |-> 0]
            ELSE perform_intra_crystal_breakage_2d(
                    mcg[n][m], rates, probs[m], m, n,
                    intra_cb_threshold_bin_matrix(rates, n, m) + start_bin_corr,
                    alternator % 2)]])

\* weathering with the result r of intra_crystal_breakage_binned
IntraCbAssign(r) ==
    IF r.error # ""
    THEN \* the exception leaves intra_crystal_breakage_binned before
         \* weathering has assigned any of its results
         /\ pc' = "error"
         /\ error' = r.error
         /\ returned' = "raise"
         /\ UNCHANGED <<self, orig, alias, mcg_broken, last>>
    ELSE /\ Write([self EXCEPT
                     !.mcg = r.mcg_new,
                     !.residue = [@ EXCEPT ![step] = r.residue_new],
                     !.residue_count = [@ EXCEPT ![step] = r.residue_count_new]],
                  {"residue", "residue_count"}, {"mcg"})
         /\ mcg_broken' = r.mcg_new
         /\ last' = Ran("intra_cb", 0, r.split)
         /\ pc' = AfterOperation
         /\ UNCHANGED <<returned, error>>

IntraCb ==
    /\ pc = "op"
    /\ cfg.operations[opi] = "intra_cb"
    /\ IntraCbAssign(intra_crystal_breakage_binned(
                        self.mcg, chem_weath_rates, intra_cb_p, step))
    /\ opi' = opi + 1
    /\ UNCHANGED <<frame, cfg, step>>

-----------------------------------------------------------------------------
(* inter_cb *)

\* seq[start::-1]
PyReverseFrom(seq, start) ==
    LET n == Len(seq)
        s0 == IF start < 0 THEN start + n ELSE start
        s1 == IF s0 >= n THEN n - 1 ELSE s0
    IN IF s0 < 0 THEN <<>> ELSE [j \in 1..(s1 + 1) |-> seq[s1 + 2 - j]]

\* variants of the two definitions below with one deliberate fault each: the
\* correction for odd sizes left out, and the table built from range(0, n)
create_interface_location_prob_even(n) ==
    LET size == n \div 2
        ranger == [j \in 1..size |-> size + 1 - j]
    IN ranger \o PyReverseFrom(ranger, -2)
standard_prob_loc_cases_shifted ==
    [x \in 1..n_standard_cases |->
        LET size == (x - 1) \div 2
            ranger == [j \in 1..size |-> size + 1 - j]
        IN ranger \o PyReverseFrom(ranger, -2 + ((x - 1) % 2))]

\* create_interface_location_prob(a), n = a.size
create_interface_location_prob(n) ==
    LET size == n \div 2
        odd == n % 2
        ranger == [j \in 1..size |-> size + 1 - j]
    IN ranger \o PyReverseFrom(ranger, -2 + odd)

\* self.standard_prob_loc_cases: entry x - 1 is built from np.arange(x)
standard_prob_loc_cases ==
    [x \in 1..n_standard_cases |-> create_interface_location_prob(x)]

\* the location weights inter_crystal_breakage uses for a pcg
location_prob(pcg_length) ==
    IF pcg_length <= n_standard_cases
    THEN At0(standard_prob_loc_cases, pcg_length - 1)
    ELSE create_interface_location_prob(pcg_length)

\* calculate_normalized_probability(location_prob, prob): the weights, whose
\* quotient by their sum is the normalised probability
calculate_normalized_probability(loc, prob) ==
    [j \in 1..Len(prob) |-> loc[j] * prob[j]]

\* gen.normalize(prob), as weights
normalize(prob) == prob

probability_normalized(pcg_length, prob) ==
    IF cfg.enable_interface_location_prob
    THEN calculate_normalized_probability(location_prob(pcg_length), prob)
    ELSE normalize(prob)

\* a variant of select_interface with a deliberate fault: the `+ 1` left out
select_interface_unshifted(i, w, c) ==
    LET u == At0(c, i)
        total == SeqSum(w)
        below == {j \in 1..Len(w) : u * total < DrawDen * SeqSum(SubSeq(w, 1, j))}
    IN IF below = {} THEN 0
       ELSE (CHOOSE j \in below : \A l \in below : j <= l) - 1

\* select_interface(i, probs, c): (c[i] < np.cumsum(probs)).argmax() + 1
\* with c[i] = u / DrawDen and probs[j] = w[j] / sum(w)
select_interface(i, w, c) ==
    LET u == At0(c, i)
        total == SeqSum(w)
        below == {j \in 1..Len(w) : u * total < DrawDen * SeqSum(SubSeq(w, 1, j))}
        argmax == IF below = {} THEN 0
                  ELSE (CHOOSE j \in below : \A l \in below : j <= l) - 1
    IN argmax + 1

\* variants of the definitions below with one deliberate fault each; the
\* properties of the breakage are checked to tell them from the originals
RightPartOverlapping(arr, interface) == Slice0(arr, interface - 1, Len(arr))
LeftProbLong(prob, interface) == Slice0(prob, 0, interface)
LeftPartShort(arr, interface) == Slice0(arr, 0, interface - 1)
McgAddLost(mcg, s, m, k, d) == mcg

\* the slices of the single break
LeftPart(arr, interface) == Slice0(arr, 0, interface)
RightPart(arr, interface) == Slice0(arr, interface, Len(arr))
LeftProb(prob, interface) == Slice0(prob, 0, interface - 1)
RightProb(prob, interface) == Slice0(prob, interface, Len(prob))

\* if interface != 1; if pcg_length - interface != 1
KeepsLeft(interface) == interface # 1
KeepsRight(pcg_length, interface) == pcg_length - interface # 1

McgAdd(mcg, s, m, k, d) == [mcg EXCEPT ![s][m][k] = @ + d]

\* the else-branch of the loop body: one break, fragments of one crystal
\* are counted in mcg_temp, the broken interface leaves the count matrix
SingleBreak(acc, pcg, prob, csize, chem, interface) ==
    LET keep_left == KeepsLeft(interface)
        keep_right == KeepsRight(Len(pcg), interface)
        a1 == IF keep_left
              THEN [acc EXCEPT
                      !.pcgs = Append(@, LeftPart(pcg, interface)),
                      !.csizes = Append(@, LeftPart(csize, interface)),
                      !.chems = Append(@, LeftPart(chem, interface)),
                      !.probs = Append(@, LeftProb(prob, interface))]
              ELSE [acc EXCEPT
                      !.mcg_temp = McgAdd(@, At0(chem, interface - 1),
                                          At0(pcg, interface - 1),
                                          At0(csize, interface - 1), 1)]
        a2 == IF keep_right
              THEN [a1 EXCEPT
                      !.pcgs = Append(@, RightPart(pcg, interface)),
                      !.csizes = Append(@, RightPart(csize, interface)),
                      !.chems = Append(@, RightPart(chem, interface)),
                      !.probs = Append(@, RightProb(prob, interface))]
              ELSE [a1 EXCEPT
                      !.mcg_temp = McgAdd(@, At0(chem, interface),
                                          At0(pcg, interface),
                                          At0(csize, interface), 1)]
    IN [a2 EXCEPT !.counts = AddAt(@, At0(pcg, interface - 1),
                                   At0(pcg, interface), -1)]

\* the if-branch (enable_multi_pcg_breakage): probability_normalized has
\* pcg_length - 1 entries and is read at `interface`; the split arrays are
\* built and dropped, nothing is appended, counted or removed
MultiBreak(acc, w, interface) ==
    IF interface >= Len(w) THEN [acc EXCEPT !.error = "IndexError"] ELSE acc

\* one pass of the loop over the pcgs
BreakPcg(acc, i, c, pcg, prob, csize, chem) ==
    LET w == probability_normalized(Len(pcg), prob)
        interface == select_interface(i, w, c)
    IN IF cfg.enable_multi_pcg_breakage
       THEN MultiBreak(acc, w, interface)
       ELSE SingleBreak(acc, pcg, prob, csize, chem, interface)

\* zip(...) stops at the shortest of the four lists
ZipLen(obj) ==
    Min(Min(Len(obj.pcgs_new), Len(obj.interface_constant_prob_new)),
        Min(Len(obj.crystal_size_array_new), Len(obj.pcg_chem_weath_array_new)))

RECURSIVE BreakPcgsFrom(_, _, _, _)
BreakPcgsFrom(acc, i, c, obj) ==
    IF i >= ZipLen(obj) \/ acc.error # "" THEN acc
    ELSE BreakPcgsFrom(
            BreakPcg(acc, i, c, At0(obj.pcgs_new, i),
                     At0(obj.interface_constant_prob_new, i),
                     At0(obj.crystal_size_array_new, i),
                     At0(obj.pcg_chem_weath_array_new, i)),
            i + 1, c, obj)

\* inter_crystal_breakage(step) with the draws c of RandomState(step)
inter_crystal_breakage(obj, c) ==
    LET acc0 == [pcgs |-> <<>>, csizes |-> <<>>, chems |-> <<>>, probs |-> <<>>,
                 mcg_temp |-> ZeroMcg(T, M),
                 counts |-> obj.interface_counts_matrix, error |-> ""]
        acc == BreakPcgsFrom(acc0, 0, c, obj)
    IN [pcgs_new |-> acc.pcgs,
        crystal_size_array_new |-> acc.csizes,
        interface_constant_prob_new |-> acc.probs,
        pcg_chem_weath_array_new |-> acc.chems,
        mcg_new |-> [s \in DOMAIN obj.mcg |-> [m \in DOMAIN obj.mcg[s] |->
                        [k \in Bins |-> obj.mcg[s][m][k] + acc.mcg_temp[s][m][k]]]],
        interface_counts_matrix |-> acc.counts,
        error |-> acc.error]

\* size of c: self.pcg_additions[step-1] + 1, step - 1 = -1 being the last entry
DrawCount == self.pcg_additions[(step - 1) % T] + 1

\* np.random.RandomState(seed).random(size): the Mersenne Twister seeded
\* with `seed` gives the same doubles on every run and every platform; the
\* first ten of each stream, as floor(draw * DrawDen)
RandomState(seed) ==
    CASE seed = 0 -> <<5488, 7151, 6027, 5448, 4236, 6458, 4375, 8917, 9636, 3834>>
      [] seed = 1 -> <<4170, 7203, 1, 3023, 1467, 923, 1862, 3455, 3967, 5388>>
      [] seed = 2 -> <<4359, 259, 5496, 4353, 4203, 3303, 2046, 6192, 2996, 2668>>
      [] seed = 3 -> <<5507, 7081, 2909, 5108, 8929, 8962, 1255, 2072, 514, 4408>>
      [] seed = 4 -> <<9670, 5472, 9726, 7148, 6977, 2160, 9762, 62, 2529, 4347>>
      [] seed = 5 -> <<2219, 8707, 2067, 9186, 4884, 6117, 7659, 5184, 2968, 1877>>
      [] seed = 6 -> <<8928, 3319, 8212, 416, 1076, 5950, 5298, 4188, 3354, 6225>>
      [] seed = 7 -> <<763, 7799, 4384, 7234, 9779, 5384, 5011, 720, 2684, 4998>>

\* the sum of the first j weights, as np.cumsum(probs)[j - 1] times the total
CumulativeWeight(w, j) == SeqSum(SubSeq(w, 1, j))

\* the weights of the interfaces of the i-th pcg, which divided by their
\* sum are its normalized probabilities
WeightsOfPcg(i) ==
    probability_normalized(Len(self.pcgs_new[i]), self.interface_constant_prob_new[i])

\* the least multiple of 1/DrawDen that is not below the sum of the first
\* j - 1 probabilities, as a numerator over DrawDen
DrawFor(w, j) ==
    LET total == SeqSum(w)
    IN IF total = 0 THEN 0
       ELSE (DrawDen * CumulativeWeight(w, j - 1) + total - 1) \div total

\* the doubles a read past the end of c may return for a pcg of weights w,
\* as numerators over DrawDen. Any double may be read: one in [0, 1)
\* selects an interface of a weight above zero, and every such interface is
\* selected by some double, of which DrawFor is one; for a double of 1 or
\* more and for nan no comparison of select_interface holds, for a double
\* below 0 every one does, and the interface is 1 in both cases, as for
\* DrawDen and -1
StrayDraws(w) ==
    {DrawFor(w, j) : j \in {k \in 1..Len(w) : w[k] > 0}} \cup {-1, DrawDen}

\* what select_interface may read as c: the DrawCount draws of
\* RandomState(step), and, select_interface being compiled without bounds
\* checks, whatever follows them in memory for a pcg beyond the end of c
DrawVectors ==
    LET size == Min(DrawCount, Len(RandomState(step)))
        read == Max(size, Len(self.pcgs_new))
        stray == UNION {StrayDraws(WeightsOfPcg(i)) : i \in (size + 1)..read}
    IN {[i \in 1..read |->
            IF i <= size THEN RandomState(step)[i] ELSE d[i]] :
            d \in {e \in [(size + 1)..read -> stray] :
                    \A i \in (size + 1)..read :
                        e[i] \in StrayDraws(WeightsOfPcg(i))}}

\* weathering with the result r of inter_crystal_breakage
InterCbAssign(r) ==
    IF r.error # ""
    THEN \* the exception leaves inter_crystal_breakage before the
         \* assignment in weathering; the interface counts are changed in
         \* place
         /\ Write([self EXCEPT
                     !.interface_counts_matrix = r.interface_counts_matrix],
                  {"interface_counts_matrix"}, {})
         /\ pc' = "error"
         /\ error' = r.error
         /\ returned' = "raise"
         /\ last' = last
    ELSE /\ Write([self EXCEPT
                     !.interface_counts_matrix = r.interface_counts_matrix,
                     !.pcgs_new = r.pcgs_new,
                     !.crystal_size_array_new = r.crystal_size_array_new,
                     !.interface_constant_prob_new = r.interface_constant_prob_new,
                     !.pcg_chem_weath_array_new = r.pcg_chem_weath_array_new,
                     !.mcg = r.mcg_new],
                  {"interface_counts_matrix"},
                  {"pcgs_new", "crystal_size_array_new",
                   "interface_constant_prob_new",
                   "pcg_chem_weath_array_new", "mcg"})
         /\ error' = error
         /\ last' = Ran("inter_cb", 0, 0)
         \* if not self.pcgs_new: return the tuple of arrays
         /\ pc' = IF r.pcgs_new = <<>> THEN "done" ELSE AfterOperation
         /\ returned' = IF r.pcgs_new = <<>> THEN "tuple" ELSE returned

InterCb ==
    /\ pc = "op"
    /\ cfg.operations[opi] = "inter_cb"
    /\ \E c \in DrawVectors : InterCbAssign(inter_crystal_breakage(self, c))
    /\ opi' = opi + 1
    /\ UNCHANGED <<frame, cfg, step, mcg_broken>>

-----------------------------------------------------------------------------
(* chem_mcg *)


\* np.roll(self.mcg, shift=1, axis=0)
Roll(mcg) == [n \in DOMAIN mcg |-> mcg[(n - 1) % T]]

\* mcg_new[n, m, :threshold] = 0 for n >= 1
DissolveBelow(rolled, rates) ==
    [n \in DOMAIN rolled |-> [m \in Minerals(M) |-> [k \in Bins |->
        IF n >= 1 /\ rolled[n][m][k] # 0 /\
           k < negative_volume_thresholds(rates, n, m)
        THEN 0 ELSE rolled[n][m][k]]]]

\* not (mcg_new[0] == 0).all(): the roll has brought crystals of the last
\* chem-state round to chem-state 0
Exhausted(mcg_new) == \E m \in Minerals(M), k \in Bins : mcg_new[0][m][k] # 0

\* mcg_new[-1] += mcg_new[0]; mcg_new[0] = 0, when mcg_new[0] holds a crystal
FoldBack(mcg_new) ==
    IF ~Exhausted(mcg_new) THEN mcg_new
    ELSE [n \in DOMAIN mcg_new |-> [m \in Minerals(M) |-> [k \in Bins |->
            IF n = 0 /\ T > 1 THEN 0
            ELSE IF n = T - 1 /\ T > 1 THEN mcg_new[n][m][k] + mcg_new[0][m][k]
            ELSE IF T = 1 THEN 0
            ELSE mcg_new[n][m][k]]]]

chemical_weathering_mcg(mcg, rates) ==
    LET rolled == Roll(mcg)
        kept == DissolveBelow(rolled, rates)
        residue_1 == [m \in Minerals(M) |->
            SumOver([n \in 1..(T - 1) |->
                SumOver([k \in Bins |->
                    IF rolled[n][m][k] = 0 THEN 0
                    ELSE (rolled[n][m][k] - kept[n][m][k]) *
                         volume_bins_medians_matrix(rates, n - 1, m, k)], Bins)],
                1..(T - 1))]
        residue_2 == [m \in Minerals(M) |->
            SumOver([n \in 1..(T - 1) |->
                SumOver([k \in Bins |->
                    IF rolled[n][m][k] = 0 THEN 0
                    ELSE kept[n][m][k] *
                         volume_change_matrix(rates, n - 1, m, k)], Bins)],
                1..(T - 1))]
    IN [mcg_new |-> FoldBack(kept),
        residue_per_mineral |-> [m \in Minerals(M) |-> residue_1[m] + residue_2[m]],
        dissolved |-> Mcg3Sum(rolled) - Mcg3Sum(kept),
        \* warnings.warn("End of chemical states reached, ...")
        warned |-> Exhausted(kept)]

ChemMcg ==
    /\ pc = "op"
    /\ cfg.operations[opi] = "chem_mcg"
    /\ LET r == chemical_weathering_mcg(self.mcg, chem_weath_rates)
           new == [self EXCEPT !.mcg = r.mcg_new,
                               !.mcg_chem_residue = r.residue_per_mineral]
       IN /\ Write(new, {}, {"mcg", "mcg_chem_residue"})
          /\ last' = [Ran("chem_mcg", r.dissolved, 0) EXCEPT !.warned = r.warned]
    /\ pc' = AfterOperation
    /\ opi' = opi + 1
    /\ UNCHANGED <<frame, cfg, step, mcg_broken, returned, error>>

-----------------------------------------------------------------------------
(* chem_pcg *)

\* np.array([...]): the entries are computed once
Array(seq) == seq \o <<>>

Cumsum(seq) == Array([j \in 1..Len(seq) |-> SeqSum(SubSeq(seq, 1, j))])

\* arr[mask] with a boolean mask
Masked(arr, mask) ==
    LET F[j \in 0..Len(arr)] ==
            IF j = 0 THEN <<>>
            ELSE IF mask[j] THEN Append(F[j - 1], arr[j]) ELSE F[j - 1]
    IN F[Len(arr)]


\* np.array_split(arr, positions)
ArraySplit(arr, pos) ==
    Array([j \in 1..(Len(pos) + 1) |->
        Slice0(arr, IF j = 1 THEN 0 ELSE pos[j - 1],
                    IF j = Len(pos) + 1 THEN Len(arr) ELSE pos[j])])

\* np.insert(arr, positions, val): val goes in before the entry each
\* position names in arr
InsertAt(arr, pos, val) ==
    Concat([p \in 1..(Len(arr) + 1) |->
        [q \in 1..CountEq(pos, p - 1) |-> val] \o
        (IF p <= Len(arr) THEN <<arr[p]>> ELSE <<>>)])

\* arr[:-1]
ButLast(arr) == SubSeq(arr, 1, Len(arr) - 1)

\* np.unique(arr, return_index=True, return_counts=True): per distinct value
\* in ascending order, its first position and its number of occurrences
Unique(arr) ==
    LET vals == {arr[j] : j \in 1..Len(arr)}
        rank(v) == Cardinality({w \in vals : w < v}) + 1
        byRank(r) == CHOOSE v \in vals : rank(v) = r
        first(v) == CHOOSE j \in 1..Len(arr) :
                        arr[j] = v /\ \A l \in 1..(j - 1) : arr[l] # v
    IN [r \in 1..Cardinality(vals) |->
          [unq |-> byRank(r), ind |-> first(byRank(r)) - 1,
           cnt |-> CountEq(arr, byRank(r))]]

\* self.mcg[chem_to_mcg[ind], pcg_to_mcg[ind], unq] += cnt: every crystal of
\* one size is counted in the cell of the first crystal of that size
McgAccounting(mcg, pcg_to_mcg, csize_to_mcg, chem_to_mcg) ==
    LET u == Unique(csize_to_mcg)
        F[r \in 0..Len(u)] ==
            IF r = 0 THEN mcg
            ELSE McgAdd(F[r - 1], At0(chem_to_mcg, u[r].ind),
                        At0(pcg_to_mcg, u[r].ind), u[r].unq, u[r].cnt)
    IN F[Len(u)]

\* interface_size_prob_concat: gen.get_interface_size_prob over the
\* neighbouring size bins of the concatenated array with separators
interface_size_prob_concat(csize_sep) ==
    Array([i \in 1..Max(0, Len(csize_sep) - 1) |->
        get_interface_size_prob(csize_sep[i], csize_sep[i + 1])])

\* interface_strength_prob_concat, inverted: the expanded strength matrix
\* has a row and a column of zeros for the separator
interface_strength_prob_concat(pcg_sep) ==
    Array([i \in 1..Max(0, Len(pcg_sep) - 1) |->
        IF pcg_sep[i] >= M \/ pcg_sep[i + 1] >= M THEN 0
        ELSE InverseStrength(cfg.minerals_N, M, pcg_sep[i], pcg_sep[i + 1])])

\* size / strength of two arrays, strength given inverted: entry by entry
\* when they are as long, an array of one entry against every entry of the
\* other, and ValueError (operands could not be broadcast together) for
\* any other two lengths
BroadcastQuotient(size, inverse) ==
    IF Len(size) = Len(inverse)
    THEN [error |-> "",
          value |-> Array([i \in 1..Len(size) |-> size[i] * inverse[i]])]
    ELSE IF Len(size) = 1
    THEN [error |-> "",
          value |-> Array([i \in 1..Len(inverse) |-> size[1] * inverse[i]])]
    ELSE IF Len(inverse) = 1
    THEN [error |-> "",
          value |-> Array([i \in 1..Len(size) |-> size[i] * inverse[1]])]
    ELSE [error |-> "ValueError", value |-> <<>>]

\* prob_remaining = interface_size_prob_concat / interface_strength_prob_concat,
\* each array filtered by `> 0` on its own before the division
prob_remaining(pcg_sep, csize_sep) ==
    BroadcastQuotient(Positive(interface_size_prob_concat(csize_sep),
                               interface_size_prob_concat(csize_sep)),
                      Positive(interface_strength_prob_concat(pcg_sep),
                               interface_strength_prob_concat(pcg_sep)))

\* a variant of NextChemState with a deliberate fault: the `+ 1` left out
NextChemStateSame(chem_concat_old) == chem_concat_old

\* chem_concat = chem_concat_old + 1
NextChemState(chem_concat_old) ==
    Array([j \in 1..Len(chem_concat_old) |-> chem_concat_old[j] + 1])

\* pcg_lengths_cumul_zero_deleted[:-1] - np.arange(1, ...): np.cumsum of
\* uint32 has the width of the platform's default integer. With 64 bits
\* the difference of uint64 and int64 is float64, and np.array_split raises
\* TypeError on the first float it slices with, which it does once there is
\* an index: two or more pcgs with a crystal left. With 32 bits the
\* difference of uint32 and int32 is int64
SplitIndicesAreFloats(n_nonempty) ==
    cfg.default_int_bits = 64 /\ n_nonempty >= 2

\* chemical_weathering_pcg up to a ValueError of the division, to a
\* TypeError of np.array_split, or to its return; self.mcg is updated in
\* place before any of them
chemical_weathering_pcg(obj, rates) ==
    LET pcg_lengths == Array([i \in 1..Len(obj.pcgs_new) |-> Len(obj.pcgs_new[i])])
        pcg_concat == Concat(obj.pcgs_new)
        csize_concat == Concat(obj.crystal_size_array_new)
        chem_concat_old == Concat(obj.pcg_chem_weath_array_new)
        chem_concat == NextChemState(chem_concat_old)
        remaining_crystals ==
            Array([j \in 1..Len(csize_concat) |->
                csize_concat[j] >=
                negative_volume_thresholds(rates, chem_concat[j], pcg_concat[j])])
        dissolved_crystals ==
            Array([j \in 1..Len(csize_concat) |-> ~remaining_crystals[j]])
        pcg_remaining == Masked(pcg_concat, remaining_crystals)
        csize_remaining == Masked(csize_concat, remaining_crystals)
        chem_remaining == Masked(chem_concat, remaining_crystals)
        chem_old_remaining == Masked(chem_concat_old, remaining_crystals)
        pcg_filtered == ArraySplit(remaining_crystals, Cumsum(ButLast(pcg_lengths)))
        pcg_lengths_remaining ==
            Array([i \in 1..Len(pcg_filtered) |-> CountEq(pcg_filtered[i], TRUE)])
        pcg_lengths_cumul == Cumsum(pcg_lengths_remaining)
        nonzero ==
            Array([i \in 1..Len(pcg_lengths_remaining) |-> pcg_lengths_remaining[i] # 0])
        count_0 == CountEq(pcg_lengths_remaining, 0)
        pcg_lengths_cumul_zero_deleted == Masked(pcg_lengths_cumul, nonzero)
        pcg_remaining_list == ArraySplit(pcg_remaining, ButLast(pcg_lengths_cumul))
        csize_remaining_list == ArraySplit(csize_remaining, ButLast(pcg_lengths_cumul))
        chem_remaining_list == ArraySplit(chem_remaining, ButLast(pcg_lengths_cumul))
        single == Masked(pcg_lengths_cumul,
                         [i \in 1..Len(pcg_lengths_remaining) |->
                            pcg_lengths_remaining[i] = 1])
        pcg_to_mcg ==
            Array([j \in 1..Len(single) |-> At0(pcg_remaining, single[j] - 1)])
        csize_to_mcg ==
            Array([j \in 1..Len(single) |-> At0(csize_remaining, single[j] - 1)])
        chem_to_mcg ==
            Array([j \in 1..Len(single) |-> At0(chem_remaining, single[j] - 1)])
        pcg_concat_for_interfaces ==
            InsertAt(pcg_remaining, ButLast(pcg_lengths_cumul), M)
        csize_concat_for_interfaces ==
            InsertAt(csize_remaining, ButLast(pcg_lengths_cumul), -1)
        quotient == prob_remaining(pcg_concat_for_interfaces,
                                   csize_concat_for_interfaces)
        probs == quotient.value
        cuts == ButLast(pcg_lengths_cumul_zero_deleted)
        prob_remaining_list ==
            ArraySplit(probs, Array([j \in 1..Max(0, Min(Len(cuts),
                                            Len(pcg_remaining_list) - count_0 - 1)) |->
                                 cuts[j] - j]))
        pcg_dissolved == Masked(pcg_concat, dissolved_crystals)
        csize_dissolved == Masked(csize_concat, dissolved_crystals)
        chem_old_dissolved == Masked(chem_concat_old, dissolved_crystals)
        residue_1 == [m \in Minerals(M) |->
            SeqSum([j \in 1..Len(pcg_dissolved) |->
                IF pcg_dissolved[j] = m
                THEN volume_bins_medians_matrix(rates, chem_old_dissolved[j], m,
                                                csize_dissolved[j])
                ELSE 0])]
        residue_2 == [m \in Minerals(M) |->
            SeqSum([j \in 1..Len(pcg_remaining) |->
                IF pcg_remaining[j] = m
                THEN volume_change_matrix(rates, chem_old_remaining[j], m,
                                          csize_remaining[j])
                ELSE 0])]
        longer ==
            Array([i \in 1..Len(pcg_remaining_list) |-> Len(pcg_remaining_list[i]) > 1])
    IN [error |-> IF quotient.error # "" THEN quotient.error
                  ELSE IF SplitIndicesAreFloats(Len(pcg_lengths_cumul_zero_deleted))
                  THEN "TypeError" ELSE "",
        mcg |-> McgAccounting(obj.mcg, pcg_to_mcg, csize_to_mcg, chem_to_mcg),
        pcgs_new |-> Masked(pcg_remaining_list, longer),
        crystal_size_array_new |-> Masked(csize_remaining_list, longer),
        pcg_chem_weath_array_new |-> Masked(chem_remaining_list, longer),
        interface_constant_prob_new |->
            Masked(prob_remaining_list,
                   [i \in 1..Len(prob_remaining_list) |-> prob_remaining_list[i] # <<>>]),
        residue_per_mineral |-> [m \in Minerals(M) |-> residue_1[m] + residue_2[m]],
        interface_counts_matrix_new |->
            count_and_convert_interfaces_to_matrix(pcg_concat_for_interfaces, M),
        dissolved |-> Len(pcg_dissolved)]

\* weathering with the result r of chemical_weathering_pcg
ChemPcgAssign(r) ==
    IF r.error # ""
    THEN \* the exception leaves chemical_weathering_pcg after the mcg
         \* accounting and before the assignment in weathering
         /\ Write([self EXCEPT !.mcg = r.mcg], {"mcg"}, {})
         /\ pc' = "error"
         /\ error' = r.error
         /\ returned' = "raise"
         /\ last' = last
    ELSE /\ Write([self EXCEPT
                     !.mcg = r.mcg,
                     !.pcgs_new = r.pcgs_new,
                     !.crystal_size_array_new = r.crystal_size_array_new,
                     !.interface_constant_prob_new = r.interface_constant_prob_new,
                     !.pcg_chem_weath_array_new = r.pcg_chem_weath_array_new,
                     !.pcg_chem_residue = r.residue_per_mineral,
                     !.interface_counts_matrix = r.interface_counts_matrix_new],
                  {"mcg"},
                  {"pcgs_new", "crystal_size_array_new",
                   "interface_constant_prob_new",
                   "pcg_chem_weath_array_new",
                   "pcg_chem_residue", "interface_counts_matrix"})
         /\ last' = Ran("chem_pcg", r.dissolved, 0)
         /\ pc' = AfterOperation
         /\ UNCHANGED <<returned, error>>

ChemPcg ==
    /\ pc = "op"
    /\ cfg.operations[opi] = "chem_pcg"
    /\ IF step = 0
       THEN \* if step == 0: continue
            /\ pc' = AfterOperation
            /\ UNCHANGED <<self, orig, alias, last, returned, error>>
       ELSE IF self.pcgs_new = <<>>
       THEN \* np.concatenate of an empty list
            /\ pc' = "error"
            /\ error' = "ValueError"
            /\ returned' = "raise"
            /\ UNCHANGED <<self, orig, alias, last>>
       ELSE ChemPcgAssign(chemical_weathering_pcg(self, chem_weath_rates))
    /\ opi' = opi + 1
    /\ UNCHANGED <<frame, cfg, step, mcg_broken>>

-----------------------------------------------------------------------------
(* The rest of the weathering loop *)

KnownOperations == {"intra_cb", "inter_cb", "chem_mcg", "chem_pcg"}

\* a variant of AfterSkipped with a deliberate fault: `break` for `continue`
AfterSkippedBreaks == "track"

\* `continue` in the loop over the operations: on to the next operation
AfterSkipped == AfterOperation

\* else: print a warning and continue
UnknownOp ==
    /\ pc = "op"
    /\ cfg.operations[opi] \notin KnownOperations
    /\ pc' = AfterSkipped
    /\ opi' = opi + 1
    /\ UNCHANGED <<frame, cfg, self, orig, alias, step, mcg_broken, returned, error, last>>

\* np.sum(self.mcg, axis=0)
McgOverStates(mcg) ==
    [m \in Minerals(M) |-> [k \in Bins |->
        SumOver([n \in DOMAIN mcg |-> mcg[n][m][k]], DOMAIN mcg)]]

\* the logs written at the end of a step
Logs ==
    {"mcg_broken_additions", "residue_additions", "residue_count_additions",
     "pcg_additions", "mcg_additions", "pcg_comp_evolution", "pcg_size_evolution",
     "pcg_chem_residue_additions", "mcg_chem_residue_additions", "mcg_evolution"}

\* "Track model's evolution": every log is written in place
TrackEvolution(o) ==
    [o EXCEPT
        !.mcg_broken_additions = [@ EXCEPT ![step] = Mcg3Sum(mcg_broken)],
        !.residue_additions = [@ EXCEPT ![step] = o.residue[step]],
        !.residue_count_additions = [@ EXCEPT ![step] =
            SumOver([t \in 0..(T - 1) |->
                SumOver(o.residue_count[t], Minerals(M))], 0..(T - 1)) -
            SumOver(o.residue_count_additions, 0..(T - 1))],
        !.pcg_additions = [@ EXCEPT ![step] = Len(o.pcgs_new)],
        !.mcg_additions = [@ EXCEPT ![step] = Mcg3Sum(o.mcg)],
        !.pcg_comp_evolution = Append(@, o.pcgs_new),
        !.pcg_size_evolution = Append(@, o.crystal_size_array_new),
        !.pcg_chem_residue_additions = [@ EXCEPT ![step] = o.pcg_chem_residue],
        !.mcg_chem_residue_additions = [@ EXCEPT ![step] = o.mcg_chem_residue],
        !.mcg_evolution = [@ EXCEPT ![step] = McgOverStates(o.mcg)]]

\* the end of a step: the logs, then `break` when no pcg is left, the next
\* step otherwise, `return self` after the loop
Track ==
    /\ pc = "track"
    /\ Write(TrackEvolution(self), Logs, {})
    /\ IF self.pcgs_new = <<>> \/ step + 1 >= Timesteps
       THEN /\ pc' = "done"
            /\ returned' = "self"
            /\ UNCHANGED <<step, opi, last>>
       ELSE /\ pc' = "op"
            /\ step' = step + 1
            /\ opi' = 1
            /\ last' = NoOp
            /\ returned' = returned
    /\ UNCHANGED <<frame, cfg, mcg_broken, error>>

Next ==
    \/ StartWeathering
    \/ IntraCb
    \/ InterCb
    \/ ChemMcg
    \/ ChemPcg
    \/ UnknownOp
    \/ Track

Spec == Init /\ [][Next]_vars

\* the call is under way: it has neither returned nor raised
Running == pc \in {"ready", "op", "track"}

\* where the call is: the position in the code, in the list, in the loop
control == <<pc, opi, step>>

\* control moves on
Advance ==
    /\ Running
    /\ pc' \in {"op", "track", "done", "error"}
    /\ opi' \in 1..(Len(cfg.operations) + 1)
    /\ step' \in 0..Timesteps

\* weathering is one sequential, single-threaded call of bounded loops:
\* while it is under way its control moves on
FairSpec == Spec /\ WF_control(Advance)

-----------------------------------------------------------------------------
(* Quantities the properties speak about *)

\* number of crystals inside the pcgs of a model
PcgCrystals(o) == SeqSum([i \in 1..Len(o.pcgs_new) |-> Len(o.pcgs_new[i])])

\* crystals inside pcgs plus the sum of all mcg counts
TotalCrystals(o) == PcgCrystals(o) + Mcg3Sum(o.mcg)

\* sum over the pcgs of (length - 1)
PcgInterfaces(o) == SeqSum([i \in 1..Len(o.pcgs_new) |-> Len(o.pcgs_new[i]) - 1])

MatrixSum(counts) ==
    SumOver([a \in Minerals(M) |-> SumOver(counts[a], Minerals(M))], Minerals(M))

\* the mcgs of mineral m over all chem-states and bins
McgOfMineral(o, m) ==
    SumOver([n \in DOMAIN o.mcg |-> SumOver(o.mcg[n][m], Bins)], DOMAIN o.mcg)

\* the model exists: construction did not raise
Constructed == ~(pc = "error" /\ returned = "none")

\* the operator at position opi takes its turn in this transition
Turn(op) == pc = "op" /\ cfg.operations[opi] = op /\ opi' = opi + 1

DefaultOperations == <<"intra_cb", "inter_cb", "chem_mcg", "chem_pcg">>
OnlyPcgOperations ==
    \A j \in 1..Len(cfg.operations) : cfg.operations[j] \in {"inter_cb", "chem_pcg"}

SingleBreakMode == ~cfg.enable_multi_pcg_breakage

-----------------------------------------------------------------------------
(* Properties *)

\* C1: after initialization and after every operator of every step, the sum
\* of all entries of interface_counts_matrix equals the sum over the current
\* pcgs of (length - 1).
C1_InterfaceCountsMatchPcgs ==
    Constructed => MatrixSum(self.interface_counts_matrix) = PcgInterfaces(self)

\* C2: the total number of crystals, in pcgs and in mcg, never increases,
\* and whenever it decreases a chemical weathering operator has run and the
\* decrease is the number of crystals it dissolved.
C2_TotalNeverIncreases ==
    [][/\ TotalCrystals(self') <= TotalCrystals(self)
       /\ TotalCrystals(self') < TotalCrystals(self) =>
            /\ Turn("chem_mcg") \/ Turn("chem_pcg")
            /\ TotalCrystals(self) - TotalCrystals(self') = last'.dissolved]_vars

\* C3 as stated: with only inter_cb and chem_pcg in the list, the number of
\* pcgs logged at the end of a step is at most the number at the end of the
\* step before, and at most the single initial pcg after the first step.
C3_PcgCountNeverGrows ==
    (Constructed /\ OnlyPcgOperations) =>
        \A t \in 1..Len(self.pcg_comp_evolution) :
            Len(self.pcg_comp_evolution[t]) <=
                (IF t = 1 THEN 1 ELSE Len(self.pcg_comp_evolution[t - 1]))

\* C3: with only inter_cb and chem_pcg in the list, the number of crystals
\* held in pcgs never grows, from one operator to the next and so from one
\* step to the next; the number of pcgs is no such quantity: inter_cb leaves
\* at most two pcgs for every pcg it finds, and chem_pcg never leaves more
\* pcgs than it finds.
C3_PcgCrystalsNeverGrow ==
    [][OnlyPcgOperations =>
        /\ PcgCrystals(self') <= PcgCrystals(self)
        /\ Len(self'.pcgs_new) <= 2 * Len(self.pcgs_new)
        /\ Turn("chem_pcg") => Len(self'.pcgs_new) <= Len(self.pcgs_new)]_vars

\* inter_cb has broken the single initial pcg into two pcgs
C3_Witness ==
    /\ OnlyPcgOperations
    /\ last.op = "inter_cb"
    /\ step = 0
    /\ Len(self.pcgs_new) = 2

\* the four parallel lists agree in length, entry by entry
ParallelShape(o) ==
    /\ Len(o.crystal_size_array_new) = Len(o.pcgs_new)
    /\ Len(o.pcg_chem_weath_array_new) = Len(o.pcgs_new)
    /\ Len(o.interface_constant_prob_new) = Len(o.pcgs_new)
    /\ \A i \in 1..Len(o.pcgs_new) :
        /\ Len(o.crystal_size_array_new[i]) = Len(o.pcgs_new[i])
        /\ Len(o.pcg_chem_weath_array_new[i]) = Len(o.pcgs_new[i])
        /\ Len(o.interface_constant_prob_new[i]) = Len(o.pcgs_new[i]) - 1

\* C4: after every inter_cb and every chem_pcg (and in every other state of
\* a constructed model) pcgs_new, crystal_size_array_new,
\* pcg_chem_weath_array_new and interface_constant_prob_new have the same
\* number of entries, and a pcg of length L has L sizes, L chem-states and
\* L - 1 interface probabilities.
C4_ParallelSequences == Constructed => ParallelShape(self)

\* chem_pcg has dissolved a crystal and left two or more pcgs
C4_Witness ==
    /\ last.op = "chem_pcg"
    /\ last.dissolved > 0
    /\ Len(self.pcgs_new) >= 2
    /\ pc \in {"op", "track"}

\* C5: every pcg that inter_cb or chem_pcg leaves in pcgs_new has two or
\* more crystals; the crystals that leave the pcgs in inter_cb are all
\* counted in mcg, and chem_pcg, at work on pcgs, ends without an error and
\* has counted in mcg the crystals that left the pcgs and did not dissolve.
C5_PcgsHoldTwoOrMore ==
    [][/\ \A i \in 1..Len(self'.pcgs_new) : Len(self'.pcgs_new[i]) >= 2
       /\ Turn("inter_cb") =>
            Mcg3Sum(self'.mcg) - Mcg3Sum(self.mcg) =
                PcgCrystals(self) - PcgCrystals(self')
       /\ (Turn("chem_pcg") /\ step > 0 /\ self.pcgs_new # <<>>) =>
            /\ pc' # "error"
            /\ Mcg3Sum(self'.mcg) - Mcg3Sum(self.mcg) =
                PcgCrystals(self) - PcgCrystals(self') - last'.dissolved]_vars

\* C6: for every number of minerals, construction ends without an error and
\* the corrected interface_array holds minerals_N[m] crystals of every
\* mineral m of the model.
C6_CorrectedForEveryM ==
    (/\ returned = "none"
     /\ pc \in {"ready", "error"}
     /\ \A i \in 1..Len(PropertyLists(cfg)) :
            Len(PropertyLists(cfg)[i]) \in {1, M}) =>
        /\ pc = "ready"
        /\ \A m \in Minerals(M) :
            CountEq(self.interface_array, m) = cfg.minerals_N[m]

\* C7: when weathering has ended with no pcg left, whichever operator took
\* the last one, it has returned the model, and the evolution logs hold the
\* entry of every step up to the one that emptied pcgs_new (checked where
\* inter_cb breaks each pcg once).
C7_EarlyTerminationLogged ==
    (SingleBreakMode /\ pc = "done" /\ self.pcgs_new = <<>>) =>
        /\ returned = "self"
        /\ Len(self.pcg_comp_evolution) = step + 1
        /\ Len(self.pcg_size_evolution) = step + 1
        /\ self.pcg_additions[step] = Len(self.pcgs_new)
        /\ self.mcg_additions[step] = Mcg3Sum(self.mcg)
        /\ self.mcg_evolution[step] = McgOverStates(self.mcg)

\* C8: with inter_cb alone in the list, one break per pcg and step, and at
\* least as many timesteps as the initial pcg has interfaces, pcgs_new
\* becomes empty, and then the mcgs of each mineral, over all chem-states
\* and bins, number the crystals the mineral had in interface_array.
C8_InterCbDisaggregates ==
    (/\ pc = "ready"
     /\ cfg.operations = <<"inter_cb">>
     /\ SingleBreakMode
     /\ Timesteps >= Len(self.interface_array) - 1)
    => <>(/\ self.pcgs_new = <<>>
          /\ \A m \in Minerals(M) :
                McgOfMineral(self, m) = CountEq(self.interface_array, m))

\* inter_cb alone has needed every timestep to empty pcgs_new
C8_Witness ==
    /\ cfg.operations = <<"inter_cb">>
    /\ SingleBreakMode
    /\ Timesteps = Len(self.interface_array) - 1
    /\ step = Timesteps - 1
    /\ self.pcgs_new = <<>>
    /\ \A m \in Minerals(M) : McgOfMineral(self, m) = CountEq(self.interface_array, m)

\* the attributes C9 names
ObservedAttributes ==
    {"pcgs_new", "mcg", "interface_counts_matrix", "residue", "residue_count",
     "pcg_chem_residue", "mcg_chem_residue", "mcg_broken_additions",
     "residue_additions", "residue_count_additions", "pcg_additions",
     "mcg_additions", "pcg_comp_evolution", "pcg_size_evolution",
     "pcg_chem_residue_additions", "mcg_chem_residue_additions", "mcg_evolution"}

\* C9: under inplace=False the model weathering was called on keeps the
\* pcgs, mcg, interface counts, residue arrays and evolution logs it had
\* before the call.
C9_OriginalUnchanged ==
    (Constructed /\ ~cfg.inplace) =>
        \A a \in ObservedAttributes : orig[a] = Construct(cfg).model[a]

\* the operators of the list that are due in the current step: the known
\* ones, chem_pcg not in step 0
OperatorsDue ==
    LET due(op) == op \in KnownOperations /\ ~(op = "chem_pcg" /\ step = 0)
    IN SelectSeq(cfg.operations, due)

\* C10: when a step is over, every operator due in it has run, in the order
\* of the list; with the default list the mcgs that inter_cb promoted in the
\* step have been through chem_mcg, so none is left at chem-state 0 (checked
\* where inter_cb breaks each pcg once).
C10_EveryOperatorInOrder ==
    (SingleBreakMode /\ pc \in {"track", "done"} /\ returned # "raise") =>
        /\ last.executed = OperatorsDue
        /\ cfg.operations = DefaultOperations =>
            \A m \in Minerals(M), k \in Bins : self.mcg[0][m][k] = 0

\* the operation list holds a name weathering does not know
HasUnknownOperation ==
    \E j \in 1..Len(cfg.operations) : cfg.operations[j] \notin KnownOperations

\* C11: the turn of an unrecognized operator name changes nothing of the
\* model (pcgs, mcg, interface counts, residue, nor any other attribute),
\* raises no error and moves on to the next operation of the list; at the
\* end of every step of a list that holds such a name, the known operators
\* due in the step have all run, in order; and the call ends by returning
\* the model, after the last step or with no pcg left, and never by an
\* error.
C11_UnknownOperatorSkipped ==
    [][/\ (pc = "op" /\ cfg.operations[opi] \notin KnownOperations) =>
            /\ self' = self
            /\ orig' = orig
            /\ error' = error
            /\ returned' = returned
            /\ pc' = (IF opi = Len(cfg.operations) THEN "track" ELSE "op")
            /\ opi' = opi + 1
            /\ step' = step
       /\ (HasUnknownOperation /\ pc = "track") =>
            /\ last.executed = OperatorsDue
            /\ error = ""
       /\ (HasUnknownOperation /\ Constructed) => pc' # "error"
       /\ (HasUnknownOperation /\ pc' = "done") =>
            /\ returned' = "self"
            /\ step + 1 = Timesteps \/ self'.pcgs_new = <<>>]_vars

\* in a later step, the operators before and after the unknown name have run
C11_Witness ==
    /\ cfg.operations = <<"chem_mcg", "frost", "chem_pcg">>
    /\ pc = "track"
    /\ step >= 1
    /\ last.executed = <<"chem_mcg", "chem_pcg">>

\* two vectors read from the same seed: the draws themselves are equal
SameSeed(c1, c2) == \A i \in 1..DrawCount : c1[i] = c2[i]

\* C12: two runs that have reached the same state with the same operation
\* list take the same inter_cb step: the draws of seed `step` being equal
\* in both, pcg i using draw i, the pcgs, mcg and interface counts that
\* inter_cb leaves are equal in both (every other operator, and the
\* construction from the seeded samples, is a function of the state).
C12_SameSeedSameState ==
    (pc = "op" /\ cfg.operations[opi] = "inter_cb") =>
        \A c1 \in DrawVectors :
            \A c2 \in {c \in DrawVectors : SameSeed(c1, c)} :
                inter_crystal_breakage(self, c1) = inter_crystal_breakage(self, c2)

\* some mcg is at the last chem-state
AtLastChemState(mcg) == \E m \in Minerals(M), k \in Bins : mcg[T - 1][m][k] > 0

\* C13: when chem_mcg runs with mcgs at the last chem-state T-1, they are
\* afterwards still counted at chem-state T-1, in the same mineral and bin,
\* no crystal is left at chem-state 0, and the warning is emitted; when it
\* runs with no mcg at T-1, no warning is emitted.
C13_LastChemStateFoldsBack ==
    [][Turn("chem_mcg") =>
        /\ AtLastChemState(self.mcg) =>
            /\ \A m \in Minerals(M), k \in Bins :
                    self'.mcg[T - 1][m][k] >= self.mcg[T - 1][m][k]
            /\ \A m \in Minerals(M), k \in Bins : self'.mcg[0][m][k] = 0
            /\ last'.warned
        /\ ~AtLastChemState(self.mcg) => ~last'.warned]_vars

\* calculate_vol_pcg: the median volume of every crystal inside a pcg;
\* np.concatenate of an empty list raises ValueError
calculate_vol_pcg(o) ==
    LET pcg_concat == Concat(o.pcgs_new)
        csize_concat == Concat(o.crystal_size_array_new)
        chem_concat == Concat(o.pcg_chem_weath_array_new)
    IN IF o.pcgs_new = <<>>
       THEN [error |-> "ValueError", value |-> 0]
       ELSE [error |-> "",
             value |-> SeqSum([j \in 1..Len(pcg_concat) |->
                volume_bins_medians_matrix(chem_weath_rates, chem_concat[j],
                                           pcg_concat[j], csize_concat[j])])]

\* vol_mcg = np.sum([self.volume_bins_medians_matrix * self.mcg])
vol_mcg(o) ==
    SumOver([s \in DOMAIN o.mcg |->
        SumOver([m \in Minerals(M) |->
            SumOver([k \in Bins |->
                IF o.mcg[s][m][k] = 0 THEN 0
                ELSE o.mcg[s][m][k] *
                     volume_bins_medians_matrix(chem_weath_rates, s, m, k)],
                Bins)], Minerals(M))], DOMAIN o.mcg)

\* np.sum of a (step, mineral) log
LogSum(log) ==
    SumOver([t \in DOMAIN log |-> SumOver(log[t], Minerals(M))], DOMAIN log)

\* vol_residue: the three residue logs summed
vol_residue(o) ==
    LogSum(o.residue_additions) + LogSum(o.pcg_chem_residue_additions) +
    LogSum(o.mcg_chem_residue_additions)

\* mass_balance = vol_pcg + vol_mcg + vol_residue, when
\* self.calculate_vol_pcg() has returned
mass_balance(o) ==
    LET vol_pcg == calculate_vol_pcg(o)
    IN IF vol_pcg.error # "" THEN vol_pcg
       ELSE [error |-> "", value |-> vol_pcg.value + vol_mcg(o) + vol_residue(o)]

\* the volume of the crystals in pcgs: none when no pcg is left, where
\* calculate_vol_pcg raises
VolumeInPcgs(o) == IF o.pcgs_new = <<>> THEN 0 ELSE calculate_vol_pcg(o).value

\* the volume of the parent rock as the model holds it: the median volumes
\* of the crystals of the initial pcg
InitialVolume == calculate_vol_pcg(Construct(cfg).model).value

\* a step is over: its logs are written and the next step is to start, or
\* weathering has returned
StepOver == (pc = "op" /\ opi = 1 /\ step >= 1) \/ pc = "done"

\* two matrices that differ by a common factor only
Proportional(p, q) ==
    \A a \in Minerals(M), b \in Minerals(M), c \in Minerals(M), d \in Minerals(M) :
        p[a][b] * q[c][d] = p[c][d] * q[a][b]

\* C15: the interface proportions a constructed model predicts, from which
\* the frequencies and the strength weights are derived, are those of the
\* supplied interfacial_composition when one is supplied, and the products
\* p_a * p_b of the number proportions when none is.
C15_SuppliedCompositionUsed ==
    Constructed =>
        LET pred == calculate_interface_proportions(cfg.minerals_N, M)
        IN IF cfg.interfacial_composition = None
           THEN \A a \in Minerals(M), b \in Minerals(M) :
                    pred[a][b] = cfg.minerals_N[a] * cfg.minerals_N[b]
           ELSE Proportional(pred, cfg.interfacial_composition)

\* the crystals of mineral m inside the pcgs of a model
PcgOfMineral(o, m) == CountEq(Concat(o.pcgs_new), m)

\* C16: with enable_multi_pcg_breakage on, inter_cb raises no error and
\* loses no crystal: every pcg is broken into two or more fragments, the
\* fragments of two or more crystals are the new pcgs, those of one crystal
\* are counted in mcg, and for every mineral the crystals in pcgs plus those
\* in mcg number what they did before.
C16_MultiBreakKeepsCrystals ==
    [][(Turn("inter_cb") /\ cfg.enable_multi_pcg_breakage) =>
        /\ pc' # "error"
        /\ \A i \in 1..Len(self'.pcgs_new) : Len(self'.pcgs_new[i]) >= 2
        /\ Len(self'.pcgs_new) + (Mcg3Sum(self'.mcg) - Mcg3Sum(self.mcg)) >=
                2 * Len(self.pcgs_new)
        /\ \A m \in Minerals(M) :
                PcgOfMineral(self', m) + McgOfMineral(self', m) =
                PcgOfMineral(self, m) + McgOfMineral(self, m)]_vars

\* C17: a property list of one value gives that value to every mineral, a
\* list of n_minerals values gives mineral m the m-th value, and with a list
\* of any other length construction raises and leaves no model.
C17_PropertyListsPerMineral ==
    \A i \in 1..Len(PropertyLists(cfg)) :
        LET p == PropertyLists(cfg)[i]
            set == mineral_property_setter(p, M)
        IN /\ Len(p) = 1 =>
                set.error = "" /\ \A m \in Minerals(M) : set.value[m] = p[1]
           /\ Len(p) = M =>
                set.error = "" /\ \A m \in Minerals(M) : set.value[m] = p[m + 1]
           /\ Len(p) \notin {1, M} =>
                pc = "error" /\ error = "ValueError" /\ returned = "none"

\* a model built with one rate per mineral has been weathered by chem_pcg
C17_Witness ==
    /\ Constructed
    /\ Len(cfg.chem_weath_rates) = M
    /\ chem_weath_rates[0] # chem_weath_rates[1]
    /\ last.op = "chem_pcg"
    /\ pc = "track"

\* the lengths of the pcgs of the model object
PcgLengths == {Len(self.pcgs_new[i]) : i \in 1..Len(self.pcgs_new)}

\* seq[::-1]
PyReverse(seq) == [j \in 1..Len(seq) |-> seq[Len(seq) + 1 - j]]

\* C18: for every pcg of n >= 2 crystals the location weights inter_cb uses
\* have n - 1 entries and read the same backwards, and for n up to
\* n_standard_cases the table entry inter_cb looks up is what the formula
\* gives for size n.
C18_LocationWeightsSymmetric ==
    (Constructed /\ cfg.enable_interface_location_prob) =>
        \A n \in PcgLengths :
            n >= 2 =>
                /\ Len(location_prob(n)) = n - 1
                /\ location_prob(n) = PyReverse(location_prob(n))
                /\ n <= n_standard_cases =>
                        At0(standard_prob_loc_cases, n - 1) =
                            create_interface_location_prob(n)

\* inter_cb has left a pcg of odd and a pcg of even length, both looked up
\* in the table, after breaking one whose weights come from the formula
C18_Witness ==
    /\ Constructed
    /\ cfg.enable_interface_location_prob
    /\ last.op = "inter_cb"
    /\ \E n \in PcgLengths : n <= n_standard_cases /\ n % 2 = 1
    /\ \E n \in PcgLengths : n <= n_standard_cases /\ n % 2 = 0

\* size, size - 1, ..., 1 and first, first + 1, ..., size
Descending(size) == [j \in 1..size |-> size + 1 - j]
Ascending(first, size) == [j \in 1..Max(0, size + 1 - first) |-> first + j - 1]

\* the ramp with the 1 of the centre once for even n and twice for odd n
RampOfInterfaces(n) ==
    Descending(n \div 2) \o (IF n % 2 = 1 THEN <<1>> ELSE <<>>)
        \o Ascending(2, n \div 2)

\* the ramp with the 1 of the centre twice for even n and three times for odd n
RampOfCrystals(n) ==
    Descending(n \div 2) \o (IF n % 2 = 1 THEN <<1>> ELSE <<>>)
        \o Ascending(1, n \div 2)

\* C19 as stated: the weights of a pcg of n crystals are floor(n/2), ..., 1,
\* one more 1 if n is odd, then 1, 2, ..., floor(n/2), both in the table and
\* for the pcgs inter_cb meets.
C19_LocationRamp ==
    (Constructed /\ cfg.enable_interface_location_prob) =>
        /\ \A x \in 2..n_standard_cases :
                At0(standard_prob_loc_cases, x - 1) = RampOfCrystals(x)
        /\ \A n \in PcgLengths : location_prob(n) = RampOfCrystals(n)

\* C19 amended: the weights of the n - 1 interfaces of a pcg of n crystals
\* are floor(n/2), ..., 1, one more 1 if n is odd, then 2, ..., floor(n/2),
\* both in the table and for the pcgs inter_cb meets; the weight at position
\* p is floor(n/2) less the distance of p to the nearer end.
C19_LocationRampOfInterfaces ==
    (Constructed /\ cfg.enable_interface_location_prob) =>
        /\ \A x \in 2..n_standard_cases :
                At0(standard_prob_loc_cases, x - 1) = RampOfInterfaces(x)
        /\ \A n \in PcgLengths :
                /\ location_prob(n) = RampOfInterfaces(n)
                /\ \A p \in 0..(n - 2) :
                        At0(location_prob(n), p) =
                            (n \div 2) - Min(p, n - 2 - p)

\* inter_cb has broken a pcg of odd length above the table's range into a
\* pcg of odd and a pcg of even length within it
C19_Witness ==
    /\ Constructed
    /\ cfg.enable_interface_location_prob
    /\ last.op = "inter_cb"
    /\ step = 0
    /\ Len(orig.interface_array) % 2 = 1
    /\ Len(orig.interface_array) > n_standard_cases
    /\ PcgLengths = {3, 4}

\* the places in the pcgs of a model where a crystal of mineral a is followed
\* by one of mineral b
DirectedPairs(o, a, b) ==
    Cardinality({<<i, j>> \in (1..Len(o.pcgs_new)) \X (1..(M + MaxExtra)) :
                    /\ j < Len(o.pcgs_new[i])
                    /\ o.pcgs_new[i][j] = a
                    /\ o.pcgs_new[i][j + 1] = b})

\* C20: in every state of a constructed model, each entry (a, b) of
\* interface_counts_matrix is the number of places in the current pcgs where
\* a is followed by b, and no entry is below zero.
C20_InterfaceCountsPerPair ==
    Constructed =>
        \A a \in Minerals(M), b \in Minerals(M) :
            /\ self.interface_counts_matrix[a][b] = DirectedPairs(self, a, b)
            /\ self.interface_counts_matrix[a][b] >= 0

\* C14: after every step, the volume of the crystals in pcgs plus the volume
\* of the mcgs plus the residue logged so far (intra_cb, chem_pcg and
\* chem_mcg residue) equals the volume of the parent rock; volumes are exact
\* integers here, so the tolerance is zero.
C14_MassBalance ==
    (Constructed /\ StepOver) =>
        VolumeInPcgs(self) + vol_mcg(self) + vol_residue(self) = InitialVolume


\* the bins of plane (n, m) that intra_cb breaks: those from
\* intra_cb_threshold_bin_matrix[n, m] + start_bin_corr on
BreakableBins(n, m) ==
    {k \in Bins : k >= intra_cb_threshold_bin_matrix(chem_weath_rates, n, m)
                        + start_bin_corr}

\* floor(count * p) on even steps, ceil(count * p) on odd steps
SelectedOnStep(count, p, t) ==
    IF t % 2 = 0 THEN (count * p[1]) \div p[2] ELSE CeilDiv(count * p[1], p[2])

\* the crystals of the breakable bins of a whole mcg array selected that way
SelectedInAll(mcg, t) ==
    SumOver([n \in DOMAIN mcg |->
        SumOver([m \in Minerals(M) |->
            SumOver([k \in Bins |->
                IF k \in BreakableBins(n, m)
                THEN SelectedOnStep(mcg[n][m][k], intra_cb_p[m], t) ELSE 0],
                Bins)], Minerals(M))], DOMAIN mcg)

\* C21: the crystals intra_cb selects in a step are, bin by bin,
\* floor(mcg[k] * p_m) when the step of the weathering loop is even and
\* ceil(mcg[k] * p_m) when it is odd.
C21_SelectionAlternates ==
    [][Turn("intra_cb") => last'.split = SelectedInAll(self.mcg, step)]_vars


\* the crystals of parent bin k that go to its i-th break offset: the
\* quotient of the selected crystals by the number of offsets, and the
\* remainder too for the last offset
ShareOfOffset(selected, offsets, i) ==
    (selected \div Len(offsets)) +
    (IF i = Len(offsets) THEN selected % Len(offsets) ELSE 0)

\* what plane (n, m) holds in bin j once every breakable bin k has given up
\* the crystals `selected[k]` and each share has arrived in both children
\* k - i and k - i - offsets[i]
PlaneAfterBreakage(old, selected, n, m) ==
    [j \in Bins |->
        old[j]
        - (IF j \in BreakableBins(n, m) THEN selected[j] ELSE 0)
        + SumOver([k \in Bins |->
            IF k \notin BreakableBins(n, m) THEN 0
            ELSE LET kk == k - intra_cb_threshold_bin_matrix(chem_weath_rates, n, m)
                     offsets == intra_cb_breaks_matrix(m, n, kk)
                 IN SeqSum([i \in 1..Len(offsets) |->
                        ShareOfOffset(selected[k], offsets, i) *
                        ((IF j = k - i THEN 1 ELSE 0) +
                         (IF j = k - i - offsets[i] THEN 1 ELSE 0))])],
            Bins)]

\* the crystals selected in the breakable bins of a plane
SelectedInPlane(selected, n, m) ==
    SumOver([k \in Bins |-> IF k \in BreakableBins(n, m) THEN selected[k] ELSE 0],
            Bins)

\* C22: in every (chem-state, mineral) plane intra_cb takes the selected
\* crystals from the bins at or above the threshold bin plus start_bin_corr
\* only, splits them over the break offsets with the remainder to the last,
\* and adds each share to both child bins: the plane grows by the number
\* selected, no bin below the threshold loses a crystal, and an empty plane
\* stays empty.
C22_BreakageInPlane ==
    [][Turn("intra_cb") =>
        \A n \in DOMAIN self.mcg, m \in Minerals(M) :
            LET old == self.mcg[n][m]
                new == self'.mcg[n][m]
                selected == mcg_selected(old, intra_cb_p[m], step % 2)
            IN IF \A k \in Bins : old[k] = 0 THEN new = old
               ELSE /\ new = PlaneAfterBreakage(old, selected, n, m)
                    /\ SumOver(new, Bins) =
                            SumOver(old, Bins) + SelectedInPlane(selected, n, m)
                    /\ \A j \in Bins \ BreakableBins(n, m) : new[j] >= old[j]]_vars

\* the crystals of the i-th pcg of a model, in order, each with its
\* chem-state, mineral and size bin
CrystalsOfPcg(o, i) ==
    [p \in 1..Len(o.pcgs_new[i]) |->
        <<o.pcg_chem_weath_array_new[i][p], o.pcgs_new[i][p],
          o.crystal_size_array_new[i][p]>>]

\* the crystals inside the pcgs of a model with chem-state s, mineral m and
\* size bin k
PcgCrystalsLike(o, s, m, k) ==
    Cardinality({<<i, p>> \in (1..Len(o.pcgs_new)) \X (1..(M + MaxExtra)) :
                    /\ p <= Len(o.pcgs_new[i])
                    /\ CrystalsOfPcg(o, i)[p] = <<s, m, k>>})

RECURSIVE CutOnceFrom(_, _, _, _)
\* the pcgs of `new` from position j on are those of `old` from position i
\* on, each cut at one interface into a left and a right part, the parts of
\* two or more crystals kept in that order and the parts of one crystal left
\* out
CutOnceFrom(old, new, i, j) ==
    IF i > Len(old.pcgs_new) THEN j = Len(new.pcgs_new) + 1
    ELSE \E interface \in 1..(Len(old.pcgs_new[i]) - 1) :
            LET whole == CrystalsOfPcg(old, i)
                left == SubSeq(whole, 1, interface)
                right == SubSeq(whole, interface + 1, Len(whole))
                nl == IF Len(left) >= 2 THEN 1 ELSE 0
                nr == IF Len(right) >= 2 THEN 1 ELSE 0
            IN /\ j + nl + nr - 1 <= Len(new.pcgs_new)
               /\ nl = 1 => CrystalsOfPcg(new, j) = left
               /\ nr = 1 => CrystalsOfPcg(new, j + nl) = right
               /\ CutOnceFrom(old, new, i + 1, j + nl + nr)

\* C23: single-break inter_cb keeps, for every chem-state, mineral and size
\* bin, the number of such crystals in pcgs and mcg together, and cuts every
\* pcg once, minerals, sizes and chem-states alike, the crystals staying in
\* their order.
C23_SingleBreakConserves ==
    [][(Turn("inter_cb") /\ SingleBreakMode) =>
        /\ pc' # "error"
        /\ \A s \in DOMAIN self.mcg, m \in Minerals(M), k \in Bins :
                PcgCrystalsLike(self', s, m, k) + self'.mcg[s][m][k] =
                PcgCrystalsLike(self, s, m, k) + self.mcg[s][m][k]
        /\ CutOnceFrom(self, self', 1, 1)]_vars

\* inter_cb has run on pcgs whose crystals chem_pcg has weathered before and
\* has left two or more pcgs, with crystals in mcg
C23_Witness ==
    /\ SingleBreakMode
    /\ last.op = "inter_cb"
    /\ step >= 2
    /\ Len(self.pcgs_new) >= 2
    /\ \E i \in 1..Len(self.pcgs_new) : self.pcg_chem_weath_array_new[i][1] >= 1
    /\ Mcg3Sum(self.mcg) >= 1


\* the draws in [0, 1) select_interface is tried on for weights w: every
\* draw of the streams of RandomState, 0 and 1/2, and one draw for every
\* interface of a weight above zero, as numerators over DrawDen
SampleDraws(w) ==
    {u \in StrayDraws(w) \cup {0, DrawDen \div 2} : 0 <= u /\ u < DrawDen}
        \cup {RandomState(s)[i] : s \in 0..(MaxTimesteps - 1), i \in 1..10}

\* C24: for every pcg of the model and every draw u in [0, 1) the interface
\* select_interface returns is 1 + the smallest j with u < probs[0] + ... +
\* probs[j]; it lies in 1..n-1 and has a probability above zero; with four
\* equal probabilities and u = 0.5 it is 3.
C24_SelectInterface ==
    Constructed =>
        \A i \in 1..Len(self.pcgs_new) : \A u \in SampleDraws(WeightsOfPcg(i)) :
            LET w == WeightsOfPcg(i)
                total == SeqSum(w)
                interface == select_interface(0, w, <<u>>)
            IN /\ interface \in 1..(Len(self.pcgs_new[i]) - 1)
               /\ w[interface] > 0
               /\ u * total < DrawDen * CumulativeWeight(w, interface)
               /\ \A j \in 1..(interface - 1) :
                        ~(u * total < DrawDen * CumulativeWeight(w, j))
               /\ (/\ Len(w) = 4
                   /\ \A j \in 1..4 : w[j] = w[1]
                   /\ 2 * u = DrawDen) => interface = 3

\* a pcg of five crystals with four equal probabilities, the location weight
\* off, has been cut with the first draw of RandomState(0), 0.5488, into
\* pcgs of three and two crystals
C24_Witness ==
    /\ SingleBreakMode
    /\ ~cfg.enable_interface_location_prob
    /\ cfg.operations = <<"inter_cb", "inter_cb">>
    /\ last.op = "inter_cb"
    /\ step = 0
    /\ opi = 3
    /\ Len(self.interface_array) = 6
    /\ Len(self.pcgs_new) = 2
    /\ Len(self.pcgs_new[1]) = 3
    /\ Len(self.pcgs_new[2]) = 2
    /\ self.interface_constant_prob_new[1][1] = self.interface_constant_prob_new[1][2]
    /\ self.interface_constant_prob_new[1][1] = self.interface_constant_prob_new[2][1]


\* the mcgs of chem-state s - 1, mineral m and bin k that chem_mcg carries on
\* to chem-state s: all of them from the threshold bin of (s, m) on, none
\* below it
CarriedOn(mcg, s, m, k) ==
    IF k >= negative_volume_thresholds(chem_weath_rates, s, m)
    THEN mcg[s - 1][m][k] ELSE 0

\* the mcgs chem_mcg dissolves
DissolvedByChemMcg(mcg) ==
    SumOver([s \in 1..(T - 1) |->
        SumOver([m \in Minerals(M) |->
            SumOver([k \in Bins |-> mcg[s - 1][m][k] - CarriedOn(mcg, s, m, k)],
                    Bins)], Minerals(M))], 1..(T - 1))

\* C25: chem_mcg carries the mcgs of chem-state s - 1, 1 <= s <= T - 1, to
\* chem-state s in their mineral and bin when the bin is at or above
\* negative_volume_thresholds[s, m] and removes them when it is below; the
\* mcgs of the last chem-state stay there, chem-state 0 is left empty, and
\* the total falls by the number dissolved.
C25_ChemMcgMovesOrDissolves ==
    [][Turn("chem_mcg") =>
        /\ \A s \in 1..(T - 1), m \in Minerals(M), k \in Bins :
                self'.mcg[s][m][k] =
                    CarriedOn(self.mcg, s, m, k) +
                    (IF s = T - 1 THEN self.mcg[T - 1][m][k] ELSE 0)
        /\ \A m \in Minerals(M), k \in Bins : self'.mcg[0][m][k] = 0
        /\ last'.dissolved = DissolvedByChemMcg(self.mcg)
        /\ Mcg3Sum(self'.mcg) = Mcg3Sum(self.mcg) - DissolvedByChemMcg(self.mcg)]_vars

\* chem_pcg leaves the p-th crystal of the i-th pcg: its size bin is at or
\* above the threshold of its mineral at its next chem-state
Survives(o, i, p) ==
    o.crystal_size_array_new[i][p] >=
        negative_volume_thresholds(chem_weath_rates,
                                   o.pcg_chem_weath_array_new[i][p] + 1,
                                   o.pcgs_new[i][p])

\* the crystals of the i-th pcg that chem_pcg leaves, in order, each with its
\* next chem-state, its mineral and its size bin
SurvivorsOfPcg(o, i) ==
    LET F[p \in 0..Len(o.pcgs_new[i])] ==
            IF p = 0 THEN <<>>
            ELSE IF Survives(o, i, p)
                 THEN Append(F[p - 1],
                             <<o.pcg_chem_weath_array_new[i][p] + 1,
                               o.pcgs_new[i][p], o.crystal_size_array_new[i][p]>>)
                 ELSE F[p - 1]
    IN F[Len(o.pcgs_new[i])]

\* the pcgs chem_pcg leaves with one crystal, that crystal being of
\* chem-state s, mineral m and size bin k
PromotedLike(o, s, m, k) ==
    Cardinality({i \in 1..Len(o.pcgs_new) : SurvivorsOfPcg(o, i) = <<<<s, m, k>>>>})

\* the crystals of mineral m in the pcgs that chem_pcg dissolves
DissolvedOfMineral(o, m) ==
    Cardinality({<<i, p>> \in (1..Len(o.pcgs_new)) \X (1..(M + MaxExtra)) :
                    /\ p <= Len(o.pcgs_new[i])
                    /\ o.pcgs_new[i][p] = m
                    /\ ~Survives(o, i, p)})

\* chem_pcg of a step after the first is at work on pcgs in this transition
ChemPcgRuns == Turn("chem_pcg") /\ step >= 1 /\ self.pcgs_new # <<>>

\* C26: chem_pcg counts every pcg left with one crystal once in mcg, in the
\* cell of that crystal's new chem-state, mineral and size bin, so that for
\* each mineral the crystals in pcgs and mcg together have fallen by those
\* of the mineral that dissolved when chem_pcg returns.
C26_PromotedCountedInOwnCell ==
    [][ChemPcgRuns =>
        /\ \A s \in DOMAIN self.mcg, m \in Minerals(M), k \in Bins :
                self'.mcg[s][m][k] = self.mcg[s][m][k] + PromotedLike(self, s, m, k)
        /\ pc' # "error" =>
            \A m \in Minerals(M) :
                PcgOfMineral(self', m) + McgOfMineral(self', m) =
                PcgOfMineral(self, m) + McgOfMineral(self, m)
                    - DissolvedOfMineral(self, m)]_vars

\* the pcgs chem_pcg keeps: of every pcg, in order, its survivors when there
\* are two or more of them
KeptPcgs(o) ==
    LET F[i \in 0..Len(o.pcgs_new)] ==
            IF i = 0 THEN <<>>
            ELSE IF Len(SurvivorsOfPcg(o, i)) >= 2
                 THEN Append(F[i - 1], SurvivorsOfPcg(o, i))
                 ELSE F[i - 1]
    IN F[Len(o.pcgs_new)]

\* C27: chem_pcg of a step after the first, at work on pcgs, ends without an
\* error and removes from the pcgs exactly the crystals whose size bin is
\* below the threshold of their mineral at their next chem-state; the
\* survivors keep mineral and size bin, take the next chem-state and stay in
\* their pcg in their order; no pcg is merged or split, and a pcg with fewer
\* than two survivors is no longer a pcg.
C27_SurvivorsStayInTheirPcg ==
    [][ChemPcgRuns =>
        LET kept == KeptPcgs(self) IN
        /\ pc' # "error"
        /\ Len(self'.pcgs_new) = Len(kept)
        /\ Len(self'.crystal_size_array_new) = Len(kept)
        /\ Len(self'.pcg_chem_weath_array_new) = Len(kept)
        /\ \A i \in 1..Len(kept) :
            /\ Len(self'.pcgs_new[i]) = Len(kept[i])
            /\ Len(self'.crystal_size_array_new[i]) = Len(kept[i])
            /\ Len(self'.pcg_chem_weath_array_new[i]) = Len(kept[i])
            /\ \A p \in 1..Len(kept[i]) :
                   <<self'.pcg_chem_weath_array_new[i][p], self'.pcgs_new[i][p],
                     self'.crystal_size_array_new[i][p]>> = kept[i][p]]_vars

\* the chem-state chem_pcg has brought the pcgs to under the default list of
\* operations, in which it comes last: the step once the operations of the
\* step are over, the step before while they run
ChemStateDue == IF pc \in {"track", "done"} THEN step ELSE Max(0, step - 1)

\* C28: under the default list of operations every crystal of a pcg is at
\* chem-state t once step t is over (chem_pcg passes at step 0 and adds one
\* at every later step), and no crystal of a pcg and no mcg is ever above
\* chem-state T - 1.
C28_ChemStateFollowsStep ==
    (Constructed /\ cfg.operations = DefaultOperations /\ Timesteps <= T) =>
        /\ \A i \in 1..Len(self.pcg_chem_weath_array_new) :
             \A p \in 1..Len(self.pcg_chem_weath_array_new[i]) :
                /\ self.pcg_chem_weath_array_new[i][p] = ChemStateDue
                /\ self.pcg_chem_weath_array_new[i][p] <= T - 1
        /\ DOMAIN self.mcg = 0..(T - 1)
        /\ \A s \in DOMAIN self.mcg, m \in Minerals(M), k \in Bins :
                self.mcg[s][m][k] >= 0

\* the third step of the default list of operations is over and there are
\* pcgs left, and mcg at the chem-state of the step
C28_Witness ==
    /\ cfg.operations = DefaultOperations
    /\ pc = "track"
    /\ step >= 2
    /\ self.pcgs_new # <<>>
    /\ \E m \in Minerals(M), k \in Bins : self.mcg[step][m][k] >= 1

-----------------------------------------------------------------------------
(* Construction of the interface frequencies and of the transitions, for    *)
(* any numbers of crystals: __init__ from calculate_interface_frequencies   *)
(* to create_transitions_per_mineral_correctly, one draw at a time          *)

\* minerals, and crystals of a mineral, create_N_crystals returns
MaxMinerals == 2
MaxCrystals == 3

\* the numbers of crystals per mineral create_N_crystals returns: at least
\* one of every mineral
InterfaceInputs ==
    UNION {{[n_minerals |-> MM, minerals_N |-> mN] :
                mN \in [Minerals(MM) -> 1..MaxCrystals]} : MM \in 1..MaxMinerals}

\* __init__ at `self.interface_frequencies = self.calculate_interface_frequencies()`
InterfaceInit ==
    /\ cfg \in InterfaceInputs
    /\ pc = "frequencies"
    /\ self = [minerals_N |-> cfg.minerals_N,
               N_crystals |-> SumOver(cfg.minerals_N, Minerals(cfg.n_minerals)),
               interface_frequencies |-> None]
    /\ frame = NoFrame
    /\ orig = self
    /\ alias = {}
    /\ step = 0
    /\ opi = 1
    /\ mcg_broken = None
    /\ returned = "none"
    /\ error = ""
    /\ last = NoOp

weathering_vars == <<orig, alias, step, opi, mcg_broken, returned, error, last>>

CalculateInterfaceFrequencies ==
    /\ pc = "frequencies"
    /\ self' = [self EXCEPT !.interface_frequencies =
                    calculate_interface_frequencies(self.minerals_N, M)]
    /\ pc' = "correction"
    /\ UNCHANGED <<cfg, frame, weathering_vars>>

\* the correction, and create_transitions_per_mineral_correctly up to its
\* first call of create_transitions_correctly
PerformInterfaceFrequenciesCorrection ==
    /\ pc = "correction"
    /\ self' = [self EXCEPT !.interface_frequencies =
                    perform_interface_frequencies_correction(
                        self.interface_frequencies, self.N_crystals, M)]
    /\ frame' = [row |-> 0, transitions_per_mineral |-> <<>>]
    /\ pc' = "row"
    /\ UNCHANGED <<cfg, weathering_vars>>

\* create_transitions_correctly(row, c, N) up to its loop:
\* freqs = row.copy().astype(np.int32), N_true = np.sum(freqs)
StartTransitions ==
    /\ pc = "row"
    /\ frame' = [row |-> frame.row,
                 transitions_per_mineral |-> frame.transitions_per_mineral,
                 N |-> self.minerals_N[frame.row] + corr,
                 freqs |-> self.interface_frequencies[frame.row],
                 N_true |-> SumOver(self.interface_frequencies[frame.row], Minerals(M)),
                 i |-> 0,
                 transitions |-> <<>>]
    /\ pc' = "draw"
    /\ UNCHANGED <<cfg, self, weathering_vars>>

\* one pass of `for i in range(N)`, on the draw c[i] = u / UDen
DrawTransition ==
    /\ pc = "draw"
    /\ frame.i < frame.N
    /\ \E u \in 0..(UDen - 1) :
        LET choice == Choice(frame.freqs, frame.N_true, u, M)
        IN frame' = [frame EXCEPT !.transitions = Append(@, choice),
                                  !.freqs[choice] = @ - 1,
                                  !.N_true = @ - 1,
                                  !.i = @ + 1]
    /\ UNCHANGED <<cfg, pc, self, weathering_vars>>

\* return transitions; transitions_per_mineral.append(...), and on to the
\* next row or out of the loop over the rows
ReturnTransitions ==
    /\ pc = "draw"
    /\ frame.i = frame.N
    /\ frame' = [row |-> frame.row + 1,
                 transitions_per_mineral |->
                    Append(frame.transitions_per_mineral, frame.transitions)]
    /\ pc' = IF frame.row + 1 = M THEN "transitions made" ELSE "row"
    /\ UNCHANGED <<cfg, self, weathering_vars>>

InterfaceNext ==
    \/ CalculateInterfaceFrequencies
    \/ PerformInterfaceFrequenciesCorrection
    \/ StartTransitions
    \/ DrawTransition
    \/ ReturnTransitions

InterfaceSpec == InterfaceInit /\ [][InterfaceNext]_vars

\* the interface frequencies have been corrected
FrequenciesCorrected == pc \in {"row", "draw", "transitions made"}

\* C29: after the frequency correction the entries of the frequency matrix
\* are counts between 0 and N - 1 that sum to N - 1: the subtraction from
\* the unsigned entry F[0, 0] has not wrapped around (a wrapped entry
\* 2^32 + x is kept as the negative number x).
C29_CorrectedFrequenciesAreCounts ==
    FrequenciesCorrected =>
        /\ \A a, b \in Minerals(M) :
                self.interface_frequencies[a][b] \in 0..(self.N_crystals - 1)
        /\ MatrixSum(self.interface_frequencies) = self.N_crystals - 1

\* C30: while create_transitions_correctly draws the transitions of a row,
\* no mineral has been drawn more often than its frequency in the row, so
\* no remaining frequency is negative, and the remaining total is positive
\* at every draw.
C30_DrawsWithinFrequencies ==
    pc = "draw" =>
        /\ \A b \in Minerals(M) :
            /\ CountEq(frame.transitions, b) <=
                    self.interface_frequencies[frame.row][b]
            /\ frame.freqs[b] >= 0
        /\ frame.i < frame.N => frame.N_true > 0

====
